---- MODULE Spec2Model ----
(***************************************************************************)
(* Resume screening: the match scorer of resume_matcher.py, the skill      *)
(* extraction of text_processor.py, and the handlers of app.py that save   *)
(* job requirements, take in resumes and screen them.                      *)
(*                                                                         *)
(* Python strings are TLA+ strings (TLC treats them as sequences of        *)
(* one-character strings).  Python floats are modelled as exact rationals  *)
(* [n, d] in lowest terms: IEEE rounding is not modelled.  The cosine of   *)
(* two embeddings or TF-IDF vectors is a choice among k / SimSteps.        *)
(*                                                                         *)
(* Spec is the application: job requirements are saved, a resume is        *)
(* uploaded, and screen_resumes scores it.  ScorerSpec is one direct call  *)
(* of calculate_match_score_enhanced with any arguments, TextSpec one      *)
(* direct call of a function of text_processor.py, ExampleSpec the         *)
(* application on the end-to-end example.  ThreadsSpec is two threads in   *)
(* the scorer at the same time, HandlersSpec two threads in screen_resumes *)
(* at the same time.  AuthSpec is the account requests: signup, login,     *)
(* verify_otp, forgot_password and reset_password in any order.            *)
(***************************************************************************)
EXTENDS Integers, Sequences, FiniteSets, TLC

(***************************************************************************)
(* Bounds of the model.                                                    *)
(***************************************************************************)
\* The cosine similarity of two embeddings takes the values k / SimSteps,
\* k in -SimSteps .. SimSteps.
SimSteps == 2

(***************************************************************************)
(* Python's str operations.                                                *)
(***************************************************************************)
None == "<None>"

CharAt(s, i) == SubSeq(s, i, i)

DigitChars == {"0", "1", "2", "3", "4", "5", "6", "7", "8", "9"}

WhitespaceChars == {" ", "\t", "\n", "\r", "\f"}

UpperChars == "ABCDEFGHIJKLMNOPQRSTUVWXYZ"

LowerChars == "abcdefghijklmnopqrstuvwxyz"

\* sub in s
Contains(s, sub) ==
    \E i \in 1..(Len(s) - Len(sub) + 1) : SubSeq(s, i, i + Len(sub) - 1) = sub

\* The lower-case letter of each upper-case letter
UpperToLower ==
    [c \in {CharAt(UpperChars, i) : i \in 1..26} |->
        CharAt(LowerChars, CHOOSE i \in 1..26 : CharAt(UpperChars, i) = c)]

LowerChar(c) == IF c \in DOMAIN UpperToLower THEN UpperToLower[c] ELSE c

\* s.lower()
RECURSIVE Lower(_)
Lower(s) ==
    IF s = "" THEN ""
    ELSE IF Len(s) = 1 THEN LowerChar(Head(s))
    ELSE Lower(SubSeq(s, 1, Len(s) \div 2)) \o Lower(SubSeq(s, Len(s) \div 2 + 1, Len(s)))

\* s.replace(c, '') for a one-character c
RECURSIVE Remove(_, _)
Remove(s, c) ==
    IF s = "" THEN ""
    ELSE (IF Head(s) = c THEN "" ELSE Head(s)) \o Remove(Tail(s), c)

\* s.split(c) for a one-character c: the list of the parts
RECURSIVE Split(_, _)
Split(s, c) ==
    IF ~Contains(s, c) THEN <<s>>
    ELSE LET i == CHOOSE k \in 1..Len(s) :
                      CharAt(s, k) = c /\ \A j \in 1..(k - 1) : CharAt(s, j) # c
         IN  <<SubSeq(s, 1, i - 1)>> \o Split(SubSeq(s, i + 1, Len(s)), c)

\* s.strip()
RECURSIVE Strip(_)
Strip(s) ==
    IF s = "" THEN ""
    ELSE IF Head(s) \in WhitespaceChars THEN Strip(Tail(s))
    ELSE IF CharAt(s, Len(s)) \in WhitespaceChars THEN Strip(SubSeq(s, 1, Len(s) - 1))
    ELSE s

DigitValue(c) ==
    CASE c = "0" -> 0 [] c = "1" -> 1 [] c = "2" -> 2 [] c = "3" -> 3 [] c = "4" -> 4
      [] c = "5" -> 5 [] c = "6" -> 6 [] c = "7" -> 7 [] c = "8" -> 8 [] c = "9" -> 9

\* The value of a string of decimal digits.
RECURSIVE DigitsValue(_)
DigitsValue(s) ==
    IF s = "" THEN 0
    ELSE 10 * DigitsValue(SubSeq(s, 1, Len(s) - 1)) + DigitValue(CharAt(s, Len(s)))

\* A string int() accepts after the sign: decimal digits, single
\* underscores allowed between digits
IsPyDigits(body) ==
    /\ body # ""
    /\ \A i \in 1..Len(body) : CharAt(body, i) \in DigitChars \cup {"_"}
    /\ Head(body) # "_"
    /\ CharAt(body, Len(body)) # "_"
    /\ \A i \in 1..(Len(body) - 1) :
           ~(CharAt(body, i) = "_" /\ CharAt(body, i + 1) = "_")

PyIntOf(body, sign) ==
    IF IsPyDigits(body)
    THEN [ok |-> TRUE, val |-> sign * DigitsValue(Remove(body, "_"))]
    ELSE [ok |-> FALSE, val |-> 0]

PyIntStripped(t) ==
    IF t # "" /\ Head(t) = "-" THEN PyIntOf(Tail(t), 0 - 1)
    ELSE IF t # "" /\ Head(t) = "+" THEN PyIntOf(Tail(t), 1)
    ELSE PyIntOf(t, 1)

\* int(s): surrounding whitespace and one sign are accepted.  ok = FALSE is
\* ValueError.
PyInt(s) == PyIntStripped(Strip(s))

(***************************************************************************)
(* Exact rational arithmetic for the float computations.                   *)
(***************************************************************************)
Abs(a) == IF a < 0 THEN 0 - a ELSE a

RECURSIVE GCD(_, _)
GCD(a, b) == IF b = 0 THEN a ELSE GCD(b, a % b)

\* n / d in lowest terms, d > 0
Rat(n, d) ==
    LET g == GCD(Abs(n), Abs(d))
        s == IF d < 0 THEN 0 - 1 ELSE 1
    IN  [n |-> (s * n) \div g, d |-> (s * d) \div g]

RatInt(k) == [n |-> k, d |-> 1]

RatAdd(x, y) == Rat(x.n * y.d + y.n * x.d, x.d * y.d)

RatMul(x, y) == Rat(x.n * y.n, x.d * y.d)

RatDiv(x, y) == Rat(x.n * y.d, x.d * y.n)

RatLt(x, y) == x.n * y.d < y.n * x.d

RatLeq(x, y) == x.n * y.d <= y.n * x.d

\* int(x): truncation toward zero
RatTrunc(x) == IF x.n >= 0 THEN x.n \div x.d ELSE 0 - ((0 - x.n) \div x.d)

\* np.clip(x, lo, hi)
RatClip(x, lo, hi) == IF RatLt(x, lo) THEN lo ELSE IF RatLt(hi, x) THEN hi ELSE x

(***************************************************************************)
(* The regular expression of resume_matcher.py, line 83:                   *)
(*   (\d+)(?:\s*-\s*(\d+))?\+?\s*(?:year|yr)s?(?:\s*of)?\s*experience      *)
(* Positions are 1-based; a set of positions is the set of places where    *)
(* the part of the pattern read so far can end.                            *)
(***************************************************************************)
Max(S) == CHOOSE x \in S : \A y \in S : y <= x

Min(S) == CHOOSE x \in S : \A y \in S : x <= y

\* The text has the literal w at position p.
LitAt(t, p, w) == p + Len(w) - 1 <= Len(t) /\ SubSeq(t, p, p + Len(w) - 1) = w

\* The last position of the longest run of characters of class C that
\* starts at p (p - 1 when the run is empty).
RECURSIVE RunEnd(_, _, _)
RunEnd(t, p, C) ==
    IF p <= Len(t) /\ CharAt(t, p) \in C THEN RunEnd(t, p + 1, C) ELSE p - 1

\* P followed by the literal w
ReLit(P, t, w) == {p + Len(w) : p \in {q \in P : LitAt(t, q, w)}}

\* P followed by \s*
ReSpaces(P, t) ==
    UNION {p..(RunEnd(t, p, WhitespaceChars) + 1) : p \in P}

\* P followed by w?
ReOptLit(P, t, w) == P \cup ReLit(P, t, w)

\* P followed by (?:year|yr)
ReUnit(P, t) == ReLit(P, t, "year") \cup ReLit(P, t, "yr")

\* P followed by (?:\s*of)?
ReOptOf(P, t) == P \cup ReLit(ReSpaces(P, t), t, "of")

\* The rest of the pattern after the digits,
\*   \+?\s*(?:year|yr)s?(?:\s*of)?\s*experience
\* matches from position p.
ReTailMatches(t, p) ==
    ReLit(ReSpaces(ReOptOf(ReOptLit(ReUnit(ReSpaces(ReOptLit({p}, t, "+"), t), t),
                                    t, "s"), t), t), t, "experience") # {}

\* After group 1 has ended at e1: where \s*-\s* ends, 0 when it does not match
ReDashEnd(t, a) ==
    IF LitAt(t, a, "-") THEN RunEnd(t, a + 1, WhitespaceChars) + 1 ELSE 0

ReAfterDash(t, e1) == ReDashEnd(t, RunEnd(t, e1 + 1, WhitespaceChars) + 1)

\* The ends of group 2, starting at b, after which the rest matches
ReGroup2EndsFrom(t, b) ==
    IF b = 0 THEN {}
    ELSE {e2 \in b..RunEnd(t, b, DigitChars) : ReTailMatches(t, e2 + 1)}

ReGroup2Ends(t, e1) == ReGroup2EndsFrom(t, ReAfterDash(t, e1))

\* The ends of group 1, starting at i, after which the rest matches, with
\* or without the range part (?:\s*-\s*(\d+))
ReGroup1Ends(t, i) ==
    {e1 \in i..RunEnd(t, i, DigitChars) :
        ReGroup2Ends(t, e1) # {} \/ ReTailMatches(t, e1 + 1)}

ReNoMatch == [found |-> FALSE, group1 |-> None, group2 |-> None]

ReGroups(t, i, e1, ends2) ==
    [found  |-> TRUE,
     group1 |-> SubSeq(t, i, e1),
     group2 |-> IF ends2 # {} THEN SubSeq(t, ReAfterDash(t, e1), Max(ends2))
                ELSE None]

\* The match the backtracking matcher finds first: the longest group 1; for
\* it the range part with its longest group 2, else no range part.
ReLongest(t, i, ends1) ==
    IF ends1 = {} THEN ReNoMatch
    ELSE ReGroups(t, i, Max(ends1), ReGroup2Ends(t, Max(ends1)))

\* The match that starts at position i
ReMatchAt(t, i) == ReLongest(t, i, ReGroup1Ends(t, i))

ReLeftmost(t, starts) == IF starts = {} THEN ReNoMatch ELSE ReMatchAt(t, Min(starts))

\* re.search(pattern, text): the match at the leftmost position that has one
resume_experience_match(resume_processed_text) ==
    ReLeftmost(resume_processed_text,
               {i \in 1..Len(resume_processed_text) :
                   ReGroup1Ends(resume_processed_text, i) # {}})

(***************************************************************************)
(* calculate_match_score_enhanced (resume_matcher.py).                     *)
(***************************************************************************)
WEIGHT_SEMANTIC == Rat(35, 100)

WEIGHT_SKILL_MATCH == Rat(45, 100)

WEIGHT_EXPERIENCE == Rat(20, 100)

\* Python truthiness of a str-or-None argument
Truthy(x) == x # None /\ x # ""

\* 1. Semantic similarity.  sim is what the similarity computation yields:
\* the path taken (the embedding model, or TF-IDF when the model is not
\* loaded or encode raised) and the cosine, cos / SimSteps, or that
\* fit_transform raised.  The cosine is then scaled from [-1, 1] to [0, 1]
\* on either path.
WordChars ==
    {CharAt(LowerChars, i) : i \in 1..26} \cup {CharAt(UpperChars, i) : i \in 1..26}
        \cup DigitChars \cup {"_"}

IsWordAt(t, p) == p \in 1..Len(t) /\ CharAt(t, p) \in WordChars

\* TfidfVectorizer's tokens: the lower-cased runs of two or more word
\* characters
TfidfTokens(document) ==
    {Lower(SubSeq(document, p, RunEnd(document, p, WordChars))) :
        p \in {q \in 1..Len(document) :
                  /\ IsWordAt(document, q)
                  /\ ~IsWordAt(document, q - 1)
                  /\ IsWordAt(document, q + 1)}}

\* The cosines of the two TF-IDF vectors: 0 without a common token,
\* positive with one
TfidfCosines(job_tokens, resume_tokens) ==
    IF job_tokens \cap resume_tokens = {} THEN {0} ELSE 1..SimSteps

\* fit_transform raises ValueError when the documents hold no token
TfidfSimilarities(job_description_text, resume_processed_text) ==
    IF TfidfTokens(job_description_text) \cup TfidfTokens(resume_processed_text) = {}
    THEN {[path |-> "tfidf", raised |-> TRUE, cos |-> 0]}
    ELSE {[path |-> "tfidf", raised |-> FALSE, cos |-> cos] :
             cos \in TfidfCosines(TfidfTokens(job_description_text),
                                  TfidfTokens(resume_processed_text))}

\* The cosines of two embeddings
EmbeddingSimilarities ==
    {[path |-> "embedding", raised |-> FALSE, cos |-> cos] :
        cos \in (0 - SimSteps)..SimSteps}

SemanticSimilarity(sim) ==
    RatDiv(RatAdd(Rat(sim.cos, SimSteps), RatInt(1)), RatInt(2))

\* 2. Skill matching
LowerAll(skills) == {Lower(skills[i]) : i \in DOMAIN skills}

RequiredSkillsSet(required_skills) == LowerAll(required_skills)

\* Mutant: every required skill counts as matched
MatchedIn_AllRequired(required_skills_set, extracted) == required_skills_set

MatchedIn(required_skills_set, extracted) ==
    {skill \in required_skills_set : skill \in extracted}

MatchedRequiredSkills(required_skills, resume_extracted_skills) ==
    MatchedIn(RequiredSkillsSet(required_skills), LowerAll(resume_extracted_skills))

\* Mutant: the thresholds 0.7 and 0.3 themselves are adjusted too
SkillBoost_InclusiveThresholds(pct) ==
    IF RatLeq(Rat(7, 10), pct) THEN RatMul(pct, Rat(11, 10))
    ELSE IF RatLeq(pct, Rat(3, 10)) THEN RatMul(pct, Rat(8, 10))
    ELSE pct

SkillBoost(pct) ==
    IF RatLt(Rat(7, 10), pct) THEN RatMul(pct, Rat(11, 10))
    ELSE IF RatLt(pct, Rat(3, 10)) THEN RatMul(pct, Rat(8, 10))
    ELSE pct

SkillFraction(matched_count, required_count) ==
    IF required_count > 0 THEN Rat(matched_count, required_count) ELSE RatInt(0)

SkillMatchPercentage(required_skills, resume_extracted_skills) ==
    SkillBoost(SkillFraction(
        Cardinality(MatchedRequiredSkills(required_skills, resume_extracted_skills)),
        Cardinality(RequiredSkillsSet(required_skills))))

\* 3. Experience matching.  The job's range: raised is int()'s ValueError;
\* bounded = FALSE is job_max_exp = float('inf').
JobRange(lo, hi, bounded) ==
    [raised |-> ~(lo.ok /\ hi.ok), job_min_exp |-> lo.val,
     bounded |-> bounded, job_max_exp |-> hi.val]

RangeOfParts(parts) ==
    JobRange(PyInt(parts[1]),
             PyInt(IF Contains(parts[2], "+") THEN Remove(parts[2], "+")
                   ELSE parts[2]),
             TRUE)

JobExperienceRange(experience_required) ==
    IF Contains(experience_required, "-")
    THEN RangeOfParts(Split(experience_required, "-"))
    ELSE IF Contains(experience_required, "+")
    THEN JobRange(PyInt(Remove(experience_required, "+")), [ok |-> TRUE, val |-> 0],
                  FALSE)
    ELSE JobRange([ok |-> TRUE, val |-> 0], [ok |-> TRUE, val |-> 0], FALSE)

\* Mutant: ranges that only touch at an end do not overlap
YearsScore_StrictOverlap(job, resume_min_years, resume_max_years) ==
    IF /\ job.job_min_exp < resume_max_years
       /\ (~job.bounded \/ job.job_max_exp > resume_min_years)
    THEN RatInt(1)
    ELSE IF job.bounded /\ resume_min_years > job.job_max_exp THEN Rat(7, 10)
    ELSE IF resume_max_years < job.job_min_exp THEN Rat(3, 10)
    ELSE Rat(5, 10)

\* Mutant: the underqualified test comes before the overqualified one
YearsScore_UnderqualifiedFirst(job, resume_min_years, resume_max_years) ==
    IF /\ job.job_min_exp <= resume_max_years
       /\ (~job.bounded \/ job.job_max_exp >= resume_min_years)
    THEN RatInt(1)
    ELSE IF resume_max_years < job.job_min_exp THEN Rat(3, 10)
    ELSE IF job.bounded /\ resume_min_years > job.job_max_exp THEN Rat(7, 10)
    ELSE Rat(5, 10)

\* The score of a resume whose text gives resume_min_years..resume_max_years
YearsScore(job, resume_min_years, resume_max_years) ==
    IF /\ job.job_min_exp <= resume_max_years
       /\ (~job.bounded \/ job.job_max_exp >= resume_min_years)
    THEN RatInt(1)
    ELSE IF job.bounded /\ resume_min_years > job.job_max_exp THEN Rat(7, 10)
    ELSE IF resume_max_years < job.job_min_exp THEN Rat(3, 10)
    ELSE Rat(5, 10)

\* The years the match gives
ResumeMinYears(m) == DigitsValue(m.group1)

ResumeMaxYears(m) ==
    IF m.group2 # None THEN DigitsValue(m.group2) ELSE DigitsValue(m.group1)

\* Mutant: a keyword in either text counts
InBoth_Either(job_desc_lower, resume_text_lower, k) ==
    Contains(job_desc_lower, k) \/ Contains(resume_text_lower, k)

\* k in job_desc_lower and k in resume_text_lower
InBoth(job_desc_lower, resume_text_lower, k) ==
    Contains(job_desc_lower, k) /\ Contains(resume_text_lower, k)

\* The score from seniority keywords, when the text names no years
KeywordScoreLower(job_desc_lower, resume_text_lower) ==
    IF InBoth(job_desc_lower, resume_text_lower, "senior") THEN Rat(9, 10)
    ELSE IF InBoth(job_desc_lower, resume_text_lower, "junior") THEN Rat(9, 10)
    ELSE IF InBoth(job_desc_lower, resume_text_lower, "entry-level") THEN Rat(9, 10)
    ELSE IF InBoth(job_desc_lower, resume_text_lower, "lead") THEN Rat(85, 100)
    ELSE IF InBoth(job_desc_lower, resume_text_lower, "manager") THEN Rat(8, 10)
    ELSE Rat(5, 10)

KeywordScore(job_description_text, resume_processed_text) ==
    KeywordScoreLower(Lower(job_description_text), Lower(resume_processed_text))

\* Mutant: "Any" is taken for a requirement
ExperienceRequired_AnyCounts(experience_required) == Truthy(experience_required)

\* if experience_required and experience_required != "Any"
ExperienceRequired(experience_required) ==
    Truthy(experience_required) /\ experience_required # "Any"

ScoreOfMatch(m, job, job_description_text, resume_processed_text) ==
    IF m.found
    THEN YearsScore(job, ResumeMinYears(m), ResumeMaxYears(m))
    ELSE KeywordScore(job_description_text, resume_processed_text)

\* The experience score when the job's range was parsed
ExperienceScore(job_description_text, experience_required, resume_processed_text) ==
    IF ~ExperienceRequired(experience_required) THEN RatInt(0)
    ELSE ScoreOfMatch(resume_experience_match(resume_processed_text),
                      JobExperienceRange(experience_required),
                      job_description_text, resume_processed_text)

\* int() raised while the job's range was parsed
ExperienceRaises(experience_required) ==
    /\ ExperienceRequired(experience_required)
    /\ JobExperienceRange(experience_required).raised

\* 5. Combine the scores with the weights, normalise to 100, clip
TotalWeight == RatAdd(RatAdd(WEIGHT_SEMANTIC, WEIGHT_SKILL_MATCH), WEIGHT_EXPERIENCE)

\* Mutant: the semantic and the skill weight are swapped
WeightedSum_WeightsSwapped(semantic_similarity, skill_match_percentage, experience_score) ==
    RatAdd(RatAdd(RatMul(semantic_similarity, WEIGHT_SKILL_MATCH),
                  RatMul(skill_match_percentage, WEIGHT_SEMANTIC)),
           RatMul(experience_score, WEIGHT_EXPERIENCE))

WeightedSum(semantic_similarity, skill_match_percentage, experience_score) ==
    RatAdd(RatAdd(RatMul(semantic_similarity, WEIGHT_SEMANTIC),
                  RatMul(skill_match_percentage, WEIGHT_SKILL_MATCH)),
           RatMul(experience_score, WEIGHT_EXPERIENCE))

\* Mutant: the score is not clipped
CombineScores_Unclipped(semantic_similarity, skill_match_percentage, experience_score) ==
    RatMul(RatDiv(WeightedSum(semantic_similarity, skill_match_percentage,
                              experience_score),
                  TotalWeight),
           RatInt(100))

CombineScores(semantic_similarity, skill_match_percentage, experience_score) ==
    RatClip(RatMul(RatDiv(WeightedSum(semantic_similarity, skill_match_percentage,
                                      experience_score),
                          TotalWeight),
                   RatInt(100)),
            RatInt(0), RatInt(100))

\* What the call returns, with the components it computed
Returned(path, semantic_similarity, skill_match_percentage, experience_score, matched_required_skills) ==
    [raised |-> FALSE, error |-> None, path |-> path,
     semantic_similarity |-> semantic_similarity,
     skill_match_percentage |-> skill_match_percentage,
     experience_score |-> experience_score,
     final_score |-> CombineScores(semantic_similarity, skill_match_percentage,
                                   experience_score),
     matched_required_skills |-> matched_required_skills]

\* The call ended by the ValueError of fit_transform
RaisedInSimilarity(path) ==
    [raised |-> TRUE, error |-> "fit_transform", path |-> path,
     semantic_similarity |-> RatInt(0),
     skill_match_percentage |-> RatInt(0),
     experience_score |-> RatInt(0),
     final_score |-> RatInt(0),
     matched_required_skills |-> {}]

\* The call ended by the ValueError of int()
Raised(path, semantic_similarity, skill_match_percentage) ==
    [raised |-> TRUE, error |-> "int", path |-> path,
     semantic_similarity |-> semantic_similarity,
     skill_match_percentage |-> skill_match_percentage,
     experience_score |-> RatInt(0),
     final_score |-> RatInt(0),
     matched_required_skills |-> {}]

calculate_match_score_enhanced(job_description_text, required_skills, experience_required, resume_processed_text, resume_extracted_skills, sim) ==
    IF sim.raised THEN RaisedInSimilarity(sim.path)
    ELSE IF ExperienceRaises(experience_required)
    THEN Raised(sim.path, SemanticSimilarity(sim),
                SkillMatchPercentage(required_skills, resume_extracted_skills))
    ELSE Returned(sim.path, SemanticSimilarity(sim),
                  SkillMatchPercentage(required_skills, resume_extracted_skills),
                  ExperienceScore(job_description_text, experience_required,
                                  resume_processed_text),
                  MatchedRequiredSkills(required_skills, resume_extracted_skills))

(***************************************************************************)
(* screen_resumes (app.py): the department boost and the stored score.     *)
(***************************************************************************)
\* Mutant: no boost for the department
DepartmentMatchFactor_NoBoost(required_department, resume_processed_text) == RatInt(1)

DepartmentMatchFactor(required_department, resume_processed_text) ==
    IF /\ Truthy(required_department)
       /\ Contains(Lower(resume_processed_text), Lower(required_department))
    THEN Rat(105, 100)
    ELSE RatInt(1)

Min100(final_score) == IF final_score < 100 THEN final_score ELSE 100

\* Mutant: the score is truncated before the boost is applied
StoredScore_TruncatedFirst(match_score, department_match_factor) ==
    Min100(RatTrunc(RatMul(RatInt(RatTrunc(match_score)), department_match_factor)))

\* final_score = int(match_score * department_match_factor), capped at 100
StoredScore(match_score, department_match_factor) ==
    Min100(RatTrunc(RatMul(match_score, department_match_factor)))

(***************************************************************************)
(* extract_skills_from_text (text_processor.py).                           *)
(***************************************************************************)
\* common_skills, as the source lists it (some entries twice)
common_skills ==
    <<
      "python", "java", "javascript", "react", "node.js", "sql", "aws",
      "docker", "kubernetes", "machine learning", "data analysis",
      "project management", "agile", "scrum", "communication", "leadership",
      "figma", "photoshop", "seo", "marketing", "finance", "hr", "sales",
      "engineering", "design", "cloud", "devops", "backend", "backend",
      "fullstack", "ui/ux", "data science", "artificial intelligence",
      "cybersecurity", "network", "database", "mobile development",
      "android", "ios", "web development", "content creation",
      "social media", "public relations", "brand management",
      "market research", "financial analysis", "accounting", "auditing",
      "investment", "recruitment", "employee relations", "training",
      "supply chain", "logistics", "operations management",
      "product management", "business development", "customer service",
      "technical support", "graphic design", "illustration", "video editing",
      "animation", "autocad", "solidworks", "excel", "powerpoint", "word",
      "microsoft office", "google suite", "tableau", "power bi", "sas", "r",
      "c++", "c#", "go", "ruby", "php", "swift", "kotlin", "typescript",
      "spring", "hibernate", "angular", "vue.js", "django", "flask",
      "laravel", "symfony", "express.js", "mongodb", "postgresql", "mysql",
      "oracle", "redis", "cassandra", "azure", "gcp", "terraform", "ansible",
      "jenkins", "gitlab ci", "jira", "confluence", "salesforce", "sap",
      "erp", "crm", "qa", "testing", "automation", "manual testing", "api",
      "rest", "graphql", "microservices", "blockchain", "iot", "robotics",
      "natural language processing", "computer vision", "deep learning",
      "neural networks", "statistical analysis", "quantitative analysis",
      "risk management", "compliance", "budgeting", "forecasting",
      "financial reporting", "tax preparation", "auditing",
      "talent acquisition", "employee engagement", "performance management",
      "compensation & benefits", "organizational development",
      "change management", "negotiation", "client management",
      "lead generation", "cold calling", "sales strategy",
      "customer relationship management", "autocad", "solidworks", "catia",
      "revit", "bim", "fea", "cfd", "matlab", "simulink", "circuit design",
      "embedded systems", "firmware", "hardware", "manufacturing processes",
      "supply chain optimization", "inventory management",
      "logistics planning", "user research", "wireframing", "prototyping",
      "usability testing", "information architecture", "interaction design",
      "visual design", "brand identity", "print design", "digital art",
      "video production", "motion graphics", "3d modeling", "maya",
      "blender", "cinema 4d", "content strategy", "copywriting", "editing",
      "proofreading", "storytelling", "email marketing", "ppc",
      "google analytics", "social media marketing", "influencer marketing",
      "public speaking", "presentation skills", "problem-solving",
      "critical thinking", "adaptability", "teamwork", "collaboration",
      "creativity", "innovation", "attention to detail"
    >>

\* \b at position p
WordBoundary(t, p) == IsWordAt(t, p - 1) # IsWordAt(t, p)

\* The texts that re.escape(skill).replace('\.', '[\.\s]?') matches
RECURSIVE SkillPatternTexts(_)
SkillPatternTexts(skill) ==
    IF skill = "" THEN {""}
    ELSE IF Head(skill) = "."
    THEN {c \o rest : c \in {"", "."} \cup WhitespaceChars,
                      rest \in SkillPatternTexts(Tail(skill))}
    ELSE {Head(skill) \o rest : rest \in SkillPatternTexts(Tail(skill))}

\* re.search(r'\b' + pattern + r'\b', processed_text)
SkillSearch(skill, processed_text) ==
    \E w \in SkillPatternTexts(skill) :
        \E p \in 1..Len(processed_text) :
            /\ LitAt(processed_text, p, w)
            /\ WordBoundary(processed_text, p)
            /\ WordBoundary(processed_text, p + Len(w))

\* The places in common_skills of the skills found in the lower-cased text
FoundPlaces(text) ==
    UNION {{k \in DOMAIN common_skills : SkillSearch(common_skills[k], processed_text)} :
              processed_text \in {Lower(text)}}

\* The found skills with their dots kept
FoundSkills_DotsKept(text) == {common_skills[i] : i \in FoundPlaces(text)}

\* set(found_skills)
FoundSkills(text) == {Remove(common_skills[i], ".") : i \in FoundPlaces(text)}

\* list(S) of a set of strings: the elements once each, in an order that
\* depends on the hash seed of the process
ListOfSet(S) ==
    {order \in [1..Cardinality(S) -> S] :
        \A x \in S : \E i \in 1..Cardinality(S) : order[i] = x}

\* The lists extract_skills_from_text can return
extract_skills_from_text(text) == ListOfSet(FoundSkills(text))

(***************************************************************************)
(* preprocess_text (text_processor.py).  word_tokenize, the stop-word list *)
(* and the WordNet lemmatizer are NLTK's: the tokenizer is modelled for    *)
(* texts whose only period outside a token is the last character, and the *)
(* lemmatizer by its noun suffix rules over the WordNet nouns the texts    *)
(* of the model can lead to.                                               *)
(***************************************************************************)
\* The last position of the run of non-whitespace characters that starts
\* at p (p - 1 when the run is empty)
RECURSIVE NonSpaceRunEnd(_, _)
NonSpaceRunEnd(t, p) ==
    IF p <= Len(t) /\ CharAt(t, p) \notin WhitespaceChars
    THEN NonSpaceRunEnd(t, p + 1)
    ELSE p - 1

\* The end of the match of http\S+|www\S+|https\S+ at position p of t, or 0
UrlEnd(t, p) ==
    IF LitAt(t, p, "http") /\ NonSpaceRunEnd(t, p + 4) >= p + 4
    THEN NonSpaceRunEnd(t, p + 4)
    ELSE IF LitAt(t, p, "www") /\ NonSpaceRunEnd(t, p + 3) >= p + 3
    THEN NonSpaceRunEnd(t, p + 3)
    ELSE 0

UrlStarts(t) == {p \in 1..Len(t) : UrlEnd(t, p) > 0}

\* re.sub(r'http\S+|www\S+|https\S+', '', text): the leftmost match is
\* removed and the search goes on after it
RECURSIVE RemoveUrls(_)
RemoveUrls(t) ==
    IF UrlStarts(t) = {} THEN t
    ELSE SubSeq(t, 1, Min(UrlStarts(t)) - 1)
             \o RemoveUrls(SubSeq(t, UrlEnd(t, Min(UrlStarts(t))) + 1, Len(t)))

\* The end of the match of @\w+|#\w+ at position p of t, or 0
MentionEnd(t, p) ==
    IF p <= Len(t) /\ CharAt(t, p) \in {"@", "#"} /\ IsWordAt(t, p + 1)
    THEN RunEnd(t, p + 1, WordChars)
    ELSE 0

MentionStarts(t) == {p \in 1..Len(t) : MentionEnd(t, p) > 0}

\* re.sub(r'@\w+|#\w+', '', text)
RECURSIVE RemoveMentions(_)
RemoveMentions(t) ==
    IF MentionStarts(t) = {} THEN t
    ELSE SubSeq(t, 1, Min(MentionStarts(t)) - 1)
             \o RemoveMentions(SubSeq(t, MentionEnd(t, Min(MentionStarts(t))) + 1, Len(t)))

\* [a-zA-Z0-9\s\.\+\-]
KeptChars == (WordChars \ {"_"}) \cup WhitespaceChars \cup {".", "+", "-"}

\* re.sub(r'[^a-zA-Z0-9\s\.\+\-]', '', text)
RECURSIVE KeepChars(_)
KeepChars(t) ==
    IF t = "" THEN ""
    ELSE IF Len(t) = 1 THEN (IF Head(t) \in KeptChars THEN t ELSE "")
    ELSE KeepChars(SubSeq(t, 1, Len(t) \div 2))
             \o KeepChars(SubSeq(t, Len(t) \div 2 + 1, Len(t)))

\* text.split()
RECURSIVE WhitespaceSplit(_)
WhitespaceSplit(t) ==
    IF t = "" THEN <<>>
    ELSE IF Head(t) \in WhitespaceChars THEN WhitespaceSplit(Tail(t))
    ELSE <<SubSeq(t, 1, NonSpaceRunEnd(t, 1))>>
             \o WhitespaceSplit(SubSeq(t, NonSpaceRunEnd(t, 1) + 1, Len(t)))

\* The period that ends the text is a token of its own
SplitFinalPeriod(tokens) ==
    IF /\ tokens # <<>>
       /\ Len(tokens[Len(tokens)]) > 1
       /\ CharAt(tokens[Len(tokens)], Len(tokens[Len(tokens)])) = "."
    THEN SubSeq(tokens, 1, Len(tokens) - 1)
             \o <<SubSeq(tokens[Len(tokens)], 1, Len(tokens[Len(tokens)]) - 1), ".">>
    ELSE tokens

\* word_tokenize(text)
word_tokenize(text) == SplitFinalPeriod(WhitespaceSplit(text))

\* stopwords.words('english'), without the entries that hold an apostrophe
stop_words ==
    { "i", "me", "my", "myself", "we", "our", "ours", "ourselves", "you", "your",
      "yours", "yourself", "yourselves", "he", "him", "his", "himself", "she",
      "her", "hers", "herself", "it", "its", "itself", "they", "them", "their",
      "theirs", "themselves", "what", "which", "who", "whom", "this", "that",
      "these", "those", "am", "is", "are", "was", "were", "be", "been", "being",
      "have", "has", "had", "having", "do", "does", "did", "doing", "a", "an",
      "the", "and", "but", "if", "or", "because", "as", "until", "while", "of",
      "at", "by", "for", "with", "about", "against", "between", "into",
      "through", "during", "before", "after", "above", "below", "to", "from",
      "up", "down", "in", "out", "on", "off", "over", "under", "again",
      "further", "then", "once", "here", "there", "when", "where", "why", "how",
      "all", "any", "both", "each", "few", "more", "most", "other", "some",
      "such", "no", "nor", "not", "only", "own", "same", "so", "than", "too",
      "very", "s", "t", "can", "will", "just", "don", "should", "now", "d", "ll",
      "m", "o", "re", "ve", "y", "ain", "aren", "couldn", "didn", "doesn", "hadn",
      "hasn", "haven", "isn", "ma", "mightn", "mustn", "needn", "shan",
      "shouldn", "wasn", "weren", "won", "wouldn" }

\* The WordNet nouns among the forms the texts of the model can lead to
WordNetNouns ==
    { "year", "yr", "experience", "engineering", "python", "senior", "junior",
      "lead", "developer", "team", "manager", "leadership", "department",
      "skill", "document", "seo", "analyst", "nurse", "teacher" }

\* The noun suffix rules of WordNet's morphy: ending, replacement
NounSuffixRules ==
    << <<"s", "">>, <<"ses", "s">>, <<"ves", "f">>, <<"xes", "x">>, <<"zes", "z">>,
       <<"ches", "ch">>, <<"shes", "sh">>, <<"men", "man">>, <<"ies", "y">> >>

EndsWith(word, ending) ==
    Len(word) >= Len(ending)
        /\ SubSeq(word, Len(word) - Len(ending) + 1, Len(word)) = ending

\* The forms of the word that are WordNet nouns
NounForms(word) ==
    ({word} \cup {SubSeq(word, 1, Len(word) - Len(NounSuffixRules[i][1]))
                      \o NounSuffixRules[i][2] :
                  i \in {k \in DOMAIN NounSuffixRules :
                            EndsWith(word, NounSuffixRules[k][1])}})
        \cap WordNetNouns

\* lemmatizer.lemmatize(word): the shortest noun form, or the word itself
LemmaOf(word, forms) ==
    IF forms = {} THEN word
    ELSE CHOOSE f \in forms : \A h \in forms : Len(f) <= Len(h)

lemmatize(word) == LemmaOf(word, NounForms(word))

\* [lemmatizer.lemmatize(word) for word in tokens if word not in stop_words]
RECURSIVE ProcessedTokens(_)
ProcessedTokens(tokens) ==
    IF tokens = <<>> THEN <<>>
    ELSE (IF Head(tokens) \in stop_words THEN <<>> ELSE <<lemmatize(Head(tokens))>>)
             \o ProcessedTokens(Tail(tokens))

\* " ".join(processed_tokens)
RECURSIVE JoinWithSpaces(_)
JoinWithSpaces(tokens) ==
    IF tokens = <<>> THEN ""
    ELSE IF Len(tokens) = 1 THEN tokens[1]
    ELSE tokens[1] \o " " \o JoinWithSpaces(Tail(tokens))

preprocess_text(text) ==
    JoinWithSpaces(ProcessedTokens(word_tokenize(
        Lower(KeepChars(RemoveMentions(RemoveUrls(text)))))))

(***************************************************************************)
(* categorize_resume (text_processor.py).                                  *)
(***************************************************************************)
categories ==
    <<
      [category |-> "Tech",
       keywords_list |-> <<
         "software", "developer", "engineer", "python", "java", "javascript",
         "react", "node.js", "sql", "aws", "cloud", "devops", "kubernetes",
         "machine learning", "data science", "artificial intelligence",
         "cybersecurity", "network", "database", "backend", "backend",
         "fullstack", "mobile development", "android", "ios",
         "web development", "algorithm", "api", "microservices", "agile",
         "scrum", "git", "linux", "windows server", "azure", "gcp",
         "programming", "development", "coding", "django", "flask",
         "typescript", "c++", "c#", "go", "ruby", "php", "swift", "kotlin",
         "rest", "graphql", "blockchain", "iot", "nlp", "computer vision",
         "deep learning", "neural networks", "big data", "hadoop", "spark",
         "kafka", "etl", "data warehousing", "business intelligence",
         "devsecops", "site reliability engineer", "sre", "qa engineer",
         "test automation"
       >>],
      [category |-> "Marketing",
       keywords_list |-> <<
         "marketing", "seo", "sem", "content", "social media", "brand",
         "campaign", "public relations", "pr", "advertisement", "analytics",
         "market research", "digital marketing", "email marketing", "crm",
         "google ads", "facebook ads", "copywriting", "strategy",
         "advertising", "ppc", "google analytics", "influencer marketing",
         "content strategy", "storytelling", "media planning",
         "demand generation", "lead generation"
       >>],
      [category |-> "Design",
       keywords_list |-> <<
         "design", "ui/ux", "graphic", "photoshop", "illustrator", "figma",
         "sketch", "adobe xd", "portfolio", "visual", "creative",
         "typography", "branding", "user experience", "user interface",
         "web design", "product design", "animation", "ux designer",
         "ui designer", "interaction design", "motion graphics",
         "3d modeling", "industrial design", "fashion design",
         "interior design", "architectural design"
       >>],
      [category |-> "Finance",
       keywords_list |-> <<
         "finance", "accounting", "audit", "financial analysis",
         "investment", "banking", "tax", "economics", "portfolio", "cpa",
         "cfa", "bookkeeping", "budget", "forecasting", "risk management",
         "compliance", "financial reporting", "treasury",
         "corporate finance", "wealth management", "financial planning",
         "equity research", "fixed income"
       >>],
      [category |-> "HR",
       keywords_list |-> <<
         "hr", "human resources", "recruitment", "talent acquisition",
         "employee relations", "onboarding", "payroll", "benefits", "hrms",
         "workforce", "compensation", "training",
         "organizational development", "performance management",
         "employee engagement", "hr business partner",
         "diversity and inclusion", "learning and development"
       >>],
      [category |-> "Sales",
       keywords_list |-> <<
         "sales", "business development", "account management",
         "client relations", "crm", "negotiation", "lead generation",
         "quota", "revenue", "customer acquisition", "sales strategy",
         "cold calling", "sales operations", "channel sales",
         "enterprise sales", "solution selling", "key account management"
       >>],
      [category |-> "Engineering",
       keywords_list |-> <<
         "engineer", "mechanical", "electrical", "civil", "chemical",
         "aerospace", "cad", "autocad", "solidworks", "matlab", "simulation",
         "design", "manufacturing", "r&d", "research and development",
         "structural", "systems", "mechatronics", "robotics", "automation",
         "circuit design", "embedded systems", "firmware", "hardware design",
         "process engineering", "quality engineering",
         "industrial engineering", "biomedical engineering"
       >>],
      [category |-> "Social Media",
       keywords_list |-> <<
         "social media", "instagram", "facebook", "twitter", "linkedin",
         "tiktok", "community management", "influencer", "content creation",
         "engagement", "hootsuite", "buffer", "social media strategy",
         "social media marketing", "platform management", "online community"
       >>],
      [category |-> "Operations",
       keywords_list |-> <<
         "operations", "logistics", "supply chain", "procurement",
         "inventory management", "process improvement", "lean manufacturing",
         "six sigma", "quality control", "project management office", "pmo",
         "business operations", "operational excellence"
       >>],
      [category |-> "Healthcare",
       keywords_list |-> <<
         "healthcare", "medical", "clinical", "nurse", "doctor", "physician",
         "hospital", "patient care", "pharmacist", "biotechnology",
         "pharmaceutical", "research", "dentist", "therapist",
         "public health", "epidemiology", "health administration"
       >>],
      [category |-> "Education",
       keywords_list |-> <<
         "education", "teacher", "professor", "instructor",
         "curriculum development", "e-learning", "academic advising",
         "student affairs", "higher education", "k-12",
         "educational technology", "tutoring", "training development"
       >>],
      [category |-> "Customer Service",
       keywords_list |-> <<
         "customer service", "customer support", "client support",
         "help desk", "technical support", "call center",
         "customer relations", "service desk", "customer success",
         "client success", "support specialist"
       >>],
      [category |-> "Legal",
       keywords_list |-> <<
         "legal", "law", "attorney", "lawyer", "paralegal", "litigation",
         "corporate law", "compliance", "intellectual property",
         "contract law", "legal research", "juris", "esq"
       >>],
      [category |-> "Project Management",
       keywords_list |-> <<
         "project management", "pmp", "scrum master", "agile coach",
         "product owner", "program management", "portfolio management",
         "jira", "confluence", "trello", "asana", "risk management",
         "stakeholder management", "budget management"
       >>]
    >>

\* re.search(r'\b' + re.escape(keyword) + r'\b', text)
KeywordSearch(keyword, text) ==
    \E p \in 1..Len(text) :
        /\ LitAt(text, p, keyword)
        /\ WordBoundary(text, p)
        /\ WordBoundary(text, p + Len(keyword))

\* Some keyword of the category is found in the text
CategoryMatches(keywords_list, text) ==
    \E i \in DOMAIN keywords_list : KeywordSearch(keywords_list[i], text)

\* The categories with a keyword in the text, by their place in the dict
MatchingCategories(text) ==
    {i \in DOMAIN categories : CategoryMatches(categories[i].keywords_list, text)}

\* any(k in text for k in [...])
GeneralTerms == <<"analyst", "consultant", "specialist", "manager", "coordinator">>

\* The general terms searched as whole words
AnyGeneralTerm_WholeWords(text) ==
    \E i \in DOMAIN GeneralTerms : KeywordSearch(GeneralTerms[i], text)

AnyGeneralTerm(text) == \E i \in DOMAIN GeneralTerms : Contains(text, GeneralTerms[i])

\* The loop returns at the first category, in the order of the dict, one of
\* whose keywords is found
CategoryOf(text, matching) ==
    IF matching # {} THEN categories[Min(matching)].category
    ELSE IF AnyGeneralTerm(text) THEN "Other"
    ELSE "Uncategorized"

CategorizeLower(text) == CategoryOf(text, MatchingCategories(text))

categorize_resume(text) == CategorizeLower(Lower(text))

(***************************************************************************)
(* The arguments of direct calls of the scorer: every value of an argument *)
(* the scorer accepts, varied one respect at a time around a plain call.   *)
(***************************************************************************)
RequiredSkillsInputs ==
    { <<>>,
      <<"python", "sql">>,
      <<"Python", "SQL">>,
      <<"python", "Python", "sql">>,
      <<"python", "sql", "aws", "docker">>,
      <<"node.js", "python">>,
      <<"python", "sql", "aws", "docker", "java", "react", "figma", "excel",
        "scrum", "agile">> }

ExtractedSkillsInputs ==
    { <<>>,
      <<"python">>,
      <<"python", "sql">>,
      <<"PYTHON", "Sql">>,
      <<"java", "react">>,
      <<"python", "sql", "aws">>,
      <<"docker", "aws", "sql", "python">>,
      <<"python", "sql", "aws", "docker", "java", "react", "figma">>,
      <<"python", "sql", "aws", "docker", "java", "react", "figma", "excel">>,
      <<"python", "sql", "aws", "docker", "java", "react", "figma", "excel",
        "scrum", "agile", "go">> }

ExperienceRequiredInputs ==
    { None, "", "Any",
      "3-5", "5+", "0-2", "10+", "5-3", "3 - 5", "2-4-6", "5",
      "3-5+", "1-3+",
      "three-five", "3-", "senior+", "+", "-5" }

JobDescriptionInputs ==
    { "Senior Python backend engineer",
      "Senior lead manager",
      "entry-level lead",
      "Junior analyst",
      "" }

ResumeTextInputs ==
    { "4 years experience in Engineering",
      "2 years experience",
      "7 yrs of experience senior",
      "3-5 years experience",
      "6 - 9 year experience junior",
      "10+ years experience lead",
      "9 - 6 years experience",
      "experience 5 years",
      "senior lead developer",
      "team lead manager",
      "junior entry-level manager",
      "leadership engineering",
      "" }

PlainArguments ==
    [job_description_text |-> "Senior Python backend engineer",
     required_skills |-> <<"python", "sql">>,
     experience_required |-> "3-5",
     resume_processed_text |-> "4 years experience in Engineering",
     resume_extracted_skills |-> <<"python">>]

\* Every required-skill list against every extracted-skill list
SkillArguments ==
    [job_description_text : {PlainArguments.job_description_text},
     required_skills : RequiredSkillsInputs,
     experience_required : {"Any", "3-5"},
     resume_processed_text : {PlainArguments.resume_processed_text,
                              "leadership engineering"},
     resume_extracted_skills : ExtractedSkillsInputs]

\* Every experience requirement against every text
ExperienceArguments ==
    [job_description_text : {PlainArguments.job_description_text},
     required_skills : {PlainArguments.required_skills},
     experience_required : ExperienceRequiredInputs,
     resume_processed_text : ResumeTextInputs,
     resume_extracted_skills : {PlainArguments.resume_extracted_skills}]

\* Every job description against every text
KeywordArguments ==
    [job_description_text : JobDescriptionInputs,
     required_skills : {PlainArguments.required_skills},
     experience_required : {"Any", "3-5", "5+"},
     resume_processed_text : ResumeTextInputs,
     resume_extracted_skills : {PlainArguments.resume_extracted_skills}]

ScorerArguments == SkillArguments \cup ExperienceArguments \cup KeywordArguments

(***************************************************************************)
(* The requests of the handlers.  A job-requirements request carries any   *)
(* JSON values; a resume arrives as the text preprocess_text returns for   *)
(* it: lower case, split into tokens, stop words dropped, lemmatized.      *)
(***************************************************************************)
DepartmentInputs == { None, "", "Engineering" }

PlainJob ==
    [job_description |-> "Senior Python backend engineer",
     department |-> None,
     skills |-> <<"python", "sql">>,
     experience_required |-> "3-5"]

JobRequirementsInputs ==
         [job_description : {PlainJob.job_description},
          department : {None, "Engineering"},
          skills : RequiredSkillsInputs,
          experience_required : {"Any", "3-5"}]
    \cup [job_description : {PlainJob.job_description},
          department : {None},
          skills : {PlainJob.skills},
          experience_required : ExperienceRequiredInputs]
    \cup [job_description : JobDescriptionInputs,
          department : {None},
          skills : {PlainJob.skills},
          experience_required : {"Any", "3-5", "5+"}]
    \cup [job_description : {PlainJob.job_description},
          department : DepartmentInputs,
          skills : {PlainJob.skills},
          experience_required : {"Any", "3-5"}]

\* The texts extract_text_from_file reads from the uploaded files
RawTextInputs ==
    { "4 years of experience in Engineering, Python",
      "4 years of experience in Engineering with Python and SQL",
      "2 years experience",
      "7 yrs of experience as a senior Python",
      "3-5 years experience",
      "6 - 9 year experience, junior",
      "10+ years experience lead",
      "Experience: 5 years",
      "Senior lead developer (JavaScript)",
      "Team lead & manager",
      "junior entry-level manager",
      "Leadership in engineering: node.js",
      "" }

\* The job and the candidate text of the end-to-end example
ExampleJob ==
    [job_description |-> "Senior Python backend engineer",
     department |-> "Engineering",
     skills |-> <<"python", "sql">>,
     experience_required |-> "3-5"]

ExampleText ==
    "5 years of experience as a Python and SQL backend developer, worked in the Engineering department"

resume_id == "resume-1"

job_id == "job-1"

(***************************************************************************)
(* The state.                                                              *)
(***************************************************************************)
VARIABLES
    model,                 \* resume_matcher.model: "loaded", or None
    job_requirements_db,   \* job_id -> the job requirements saved for it
    resumes_db,            \* resume_id -> the processed resume
    calls,                 \* the last call of calculate_match_score_enhanced
    screening_results_db,  \* resume_id -> the result of the last screening
    pc,                    \* thread -> where the thread is in its function
    frames,                \* frame -> the local variables of the call in it
    users                  \* email -> the row of the Supabase table 'users'

vars == <<model, job_requirements_db, resumes_db, calls, screening_results_db, pc, frames, users>>

\* The threads of the server that run at the same time
Threads == {1, 2}

Init ==
    /\ model \in {"loaded", None}
    /\ job_requirements_db = <<>>
    /\ resumes_db = <<>>
    /\ calls = <<>>
    /\ screening_results_db = <<>>
    /\ pc = [thread \in Threads |-> "idle"]
    /\ frames = [thread \in Threads |-> <<>>]
    /\ users = <<>>

\* save_job_requirements for request data of a signed-in user drawn from
\* Inputs; generate_id gives the job the new id
SaveJob(id, Inputs) ==
    /\ id \notin DOMAIN job_requirements_db
    /\ \E data \in Inputs :
           IF ~Truthy(data.job_description) \/ data.skills = <<>>
           THEN UNCHANGED job_requirements_db
           ELSE job_requirements_db' = job_requirements_db @@ (id :> data)

\* The one job of the application model gets the id job_id
save_job_requirements ==
    /\ SaveJob(job_id, JobRequirementsInputs)
    /\ UNCHANGED <<pc, frames, users, model, resumes_db, calls, screening_results_db>>

\* The entries upload_resumes can store for a file with the text raw_text:
\* the skills in one of the orders list(set(...)) can give
ProcessedEntries(raw_text, processed_text) ==
    {[raw_text |-> raw_text,
      processed_text |-> processed_text,
      extracted_skills |-> extracted_skills,
      categorized_field |-> categorize_resume(processed_text)] :
        extracted_skills \in extract_skills_from_text(processed_text)}

\* The entries for files with the texts Texts
ResumeEntries(Texts) ==
    UNION {ProcessedEntries(processed[1], processed[2]) :
              processed \in {<<raw_text, preprocess_text(raw_text)>> : raw_text \in Texts}}

\* upload_resumes for one file whose entry is one of Entries; generate_id
\* gives the resume the new id
UploadResume(id, Entries) ==
    /\ id \notin DOMAIN resumes_db
    /\ \E entry \in Entries : resumes_db' = resumes_db @@ (id :> entry)

UploadedEntries == ResumeEntries(RawTextInputs)

\* The one resume of the application model gets the id resume_id
upload_resumes ==
    /\ UploadResume(resume_id, UploadedEntries)
    /\ UNCHANGED <<pc, frames, users, model, job_requirements_db, calls, screening_results_db>>

\* The arguments screen_resumes passes to the scorer
ScorerArgumentsOf(job_req, resume_data) ==
    [job_description_text |-> job_req.job_description,
     required_skills |-> job_req.skills,
     experience_required |-> job_req.experience_required,
     resume_processed_text |-> resume_data.processed_text,
     resume_extracted_skills |-> resume_data.extracted_skills]

\* The call of the scorer with these arguments
Score(args, sim) ==
    calculate_match_score_enhanced(args.job_description_text, args.required_skills,
                                   args.experience_required,
                                   args.resume_processed_text,
                                   args.resume_extracted_skills, sim)

\* The result screen_resumes stores for a resume of the request
ScreeningResultOf(screened_job_id, screened_resume_id, ret, job_req, resume_data) ==
    [job_id |-> screened_job_id,
     resume_id |-> screened_resume_id,
     match_score |-> StoredScore(ret.final_score,
                                 DepartmentMatchFactor(job_req.department,
                                                       resume_data.processed_text)),
     matched_skills |-> ret.matched_required_skills,
     department |-> job_req.department]

ScreeningResult(ret, job_req, resume_data) ==
    ScreeningResultOf(job_id, resume_id, ret, job_req, resume_data)

\* The handler once the scorer has returned ret or raised: the results were
\* cleared before the loop (line 474), and the exception ends the handler.
Screened(args, ret, job_req, resume_data) ==
    /\ calls' = <<[args |-> args, ret |-> ret]>>
    /\ screening_results_db' =
           IF ret.raised THEN <<>>
           ELSE (resume_id :> ScreeningResult(ret, job_req, resume_data))

ScoreAndStore(job_req, resume_data, sim) ==
    \E args \in {ScorerArgumentsOf(job_req, resume_data)} :
        \E ret \in {Score(args, sim)} :
            Screened(args, ret, job_req, resume_data)

\* screen_resumes for the request {job_id, resume_ids: [resume_id]}, the
\* model loaded and encode returning: the cosine of the two embeddings
ScreenWithEmbeddings ==
    /\ model = "loaded"
    /\ job_id \in DOMAIN job_requirements_db
    /\ resume_id \in DOMAIN resumes_db
    /\ \E sim \in EmbeddingSimilarities :
           ScoreAndStore(job_requirements_db[job_id], resumes_db[resume_id], sim)
    /\ UNCHANGED <<pc, frames, users, model, job_requirements_db, resumes_db>>

\* The same request, the model not loaded or encode raising: TF-IDF
ScreenWithTfidf ==
    /\ job_id \in DOMAIN job_requirements_db
    /\ resume_id \in DOMAIN resumes_db
    /\ \E sim \in TfidfSimilarities(job_requirements_db[job_id].job_description,
                                    resumes_db[resume_id].processed_text) :
           ScoreAndStore(job_requirements_db[job_id], resumes_db[resume_id], sim)
    /\ UNCHANGED <<pc, frames, users, model, job_requirements_db, resumes_db>>

\* The same request before the resume is uploaded: the results are cleared
\* and the unknown id is skipped
ScreenUnknownResume ==
    /\ job_id \in DOMAIN job_requirements_db
    /\ resume_id \notin DOMAIN resumes_db
    /\ screening_results_db' = <<>>
    /\ UNCHANGED <<pc, frames, users, model, job_requirements_db, resumes_db, calls>>

Next ==
    \/ save_job_requirements
    \/ upload_resumes
    \/ ScreenWithEmbeddings
    \/ ScreenWithTfidf
    \/ ScreenUnknownResume

Spec == Init /\ [][Next]_vars

(***************************************************************************)
(* The application on the requests of the end-to-end example.              *)
(***************************************************************************)
SaveExampleJob ==
    /\ SaveJob(job_id, {ExampleJob})
    /\ UNCHANGED <<pc, frames, users, model, resumes_db, calls, screening_results_db>>

ExampleEntries == ResumeEntries({ExampleText})

UploadExampleResume ==
    /\ UploadResume(resume_id, ExampleEntries)
    /\ UNCHANGED <<pc, frames, users, model, job_requirements_db, calls, screening_results_db>>

ExampleNext ==
    \/ SaveExampleJob
    \/ UploadExampleResume
    \/ ScreenWithEmbeddings
    \/ ScreenWithTfidf
    \/ ScreenUnknownResume

ExampleSpec == Init /\ [][ExampleNext]_vars

(***************************************************************************)
(* The scorer called on its own, once, with any arguments.                 *)
(***************************************************************************)
Called(args, sim) ==
    /\ calls = <<>>
    /\ calls' = <<[args |-> args, ret |-> Score(args, sim)]>>
    /\ UNCHANGED <<pc, frames, users, model, job_requirements_db, resumes_db, screening_results_db>>

CallWithEmbeddings ==
    /\ model = "loaded"
    /\ \E args \in ScorerArguments : \E sim \in EmbeddingSimilarities :
           Called(args, sim)

CallWithTfidf ==
    \E args \in ScorerArguments :
        \E sim \in TfidfSimilarities(args.job_description_text,
                                     args.resume_processed_text) :
            Called(args, sim)

ScorerNext == CallWithEmbeddings \/ CallWithTfidf

ScorerSpec == Init /\ [][ScorerNext]_vars

(***************************************************************************)
(* The functions of text_processor.py called on their own, once, with any  *)
(* text.                                                                   *)
(***************************************************************************)
TextInputs ==
    { "Python developer with SEO experience",
      "seo content and brand campaign in python",
      "crm", "compliance", "risk management", "design portfolio",
      "SEO manager", "senior consultant", "office managers",
      "Team lead & manager", "gardener", "",
      "c++ and seo", "c# consultant", "c++x", "c++ developer",
      "shred the document", "HR policies",
      "experienced in node.js", "experienced in node js",
      "experienced in nodejs", "experienced in Node.js and vue.js",
      "backend and auditing, backend again",
      "5 years of experience as a Python and SQL backend developer, worked in the Engineering department",
      "4 years of experience in Engineering, Python",
      "7 yrs of experience as a senior Python @jane #hiring",
      "see https://example.com/cv or www.example.com for Skills.",
      "Leadership in engineering: node.js" }

\* The call is recorded: the function, its argument and what it returned
\* (found_skills for the list of skills)
TextCalled(call) ==
    /\ calls = <<>>
    /\ calls' = <<call>>
    /\ UNCHANGED <<pc, frames, users, model, job_requirements_db, resumes_db, screening_results_db>>

CallPreprocessText ==
    \E text \in TextInputs :
        TextCalled([args |-> [text |-> text], ret |-> preprocess_text(text),
                    fn |-> "preprocess_text"])

CallExtractSkills ==
    \E text \in TextInputs :
        \E found_skills \in extract_skills_from_text(text) :
            TextCalled([args |-> [text |-> text], fn |-> "extract_skills_from_text",
                        found_skills |-> found_skills])

CallCategorizeResume ==
    \E text \in TextInputs :
        TextCalled([args |-> [text |-> text], ret |-> categorize_resume(text),
                    fn |-> "categorize_resume"])

TextNext == CallPreprocessText \/ CallExtractSkills \/ CallCategorizeResume

TextSpec == Init /\ [][TextNext]_vars

(***************************************************************************)
(* Calls of the scorer by two threads at the same time, each on pairs of   *)
(* its own.  A call reads the module-level model and its arguments; all    *)
(* the names it assigns (lines 27-131) are locals, kept in the frame of    *)
(* the call.  A thread runs one statement group at a time.                 *)
(***************************************************************************)
\* Mutant: the locals of every call are kept in one place
FrameOf_Shared(thread) == 1

\* The frame of the call a thread makes
FrameOf(thread) == thread

\* The (job, candidate) pairs a thread scores
ThreadArguments(thread) ==
    IF thread = 1
    THEN {PlainArguments,
          [PlainArguments EXCEPT !.experience_required = "senior+"]}
    ELSE {[job_description_text |-> "Frontend developer",
           required_skills |-> <<"react", "figma">>,
           experience_required |-> "Any",
           resume_processed_text |-> "2 year experience frontend react",
           resume_extracted_skills |-> <<"react", "frontend">>],
          [job_description_text |-> "",
           required_skills |-> <<"react">>,
           experience_required |-> "5+",
           resume_processed_text |-> "",
           resume_extracted_skills |-> <<>>]}

\* The frame at the entry of the function: the arguments, no local assigned
EntryFrame(args) ==
    [args |-> args,
     sim |-> [path |-> None, raised |-> FALSE, cos |-> 0],
     semantic_similarity |-> RatInt(0),
     skill_match_percentage |-> RatInt(0),
     matched_required_skills |-> {},
     experience_score |-> RatInt(0),
     ret |-> RaisedInSimilarity(None)]

\* The thread goes on at the statement group named at
Goto(thread, at) == pc' = [pc EXCEPT ![thread] = at]

\* The call of the thread assigns locals of its frame
Assign(thread, frame) == frames' = [frames EXCEPT ![FrameOf(thread)] = frame]

\* line 20: the thread enters the function
ThreadCalls(thread) ==
    /\ pc[thread] = "idle"
    /\ \E args \in ThreadArguments(thread) : Assign(thread, EntryFrame(args))
    /\ Goto(thread, "semantic")
    /\ UNCHANGED <<users, model, job_requirements_db, resumes_db, calls, screening_results_db>>

\* lines 27-49 with the similarity sim: fit_transform raises, or
\* semantic_similarity is assigned
SimilarityDone(thread, frame, sim) ==
    IF sim.raised
    THEN /\ Assign(thread, [frame EXCEPT !.sim = sim,
                                         !.ret = RaisedInSimilarity(sim.path)])
         /\ Goto(thread, "done")
    ELSE /\ Assign(thread, [frame EXCEPT !.sim = sim,
                                         !.semantic_similarity = SemanticSimilarity(sim)])
         /\ Goto(thread, "skills")

\* lines 29-32: model is read, encode returns
ThreadEmbeds(thread) ==
    /\ pc[thread] = "semantic"
    /\ model = "loaded"
    /\ \E sim \in EmbeddingSimilarities :
           SimilarityDone(thread, frames[FrameOf(thread)], sim)
    /\ UNCHANGED <<users, model, job_requirements_db, resumes_db, calls, screening_results_db>>

\* lines 33-46: model is None or encode raises, TF-IDF
ThreadTfidf(thread) ==
    /\ pc[thread] = "semantic"
    /\ \E sim \in TfidfSimilarities(
                      frames[FrameOf(thread)].args.job_description_text,
                      frames[FrameOf(thread)].args.resume_processed_text) :
           SimilarityDone(thread, frames[FrameOf(thread)], sim)
    /\ UNCHANGED <<users, model, job_requirements_db, resumes_db, calls, screening_results_db>>

\* lines 52-66
SkillsDone(thread, frame) ==
    Assign(thread,
           [frame EXCEPT
               !.matched_required_skills =
                   MatchedRequiredSkills(frame.args.required_skills,
                                         frame.args.resume_extracted_skills),
               !.skill_match_percentage =
                   SkillMatchPercentage(frame.args.required_skills,
                                        frame.args.resume_extracted_skills)])

ThreadMatchesSkills(thread) ==
    /\ pc[thread] = "skills"
    /\ SkillsDone(thread, frames[FrameOf(thread)])
    /\ Goto(thread, "experience")
    /\ UNCHANGED <<users, model, job_requirements_db, resumes_db, calls, screening_results_db>>

\* lines 69-116: int() raises, or experience_score is assigned
ExperienceDone(thread, frame) ==
    IF ExperienceRaises(frame.args.experience_required)
    THEN /\ Assign(thread, [frame EXCEPT !.ret = Raised(frame.sim.path,
                                                        frame.semantic_similarity,
                                                        frame.skill_match_percentage)])
         /\ Goto(thread, "done")
    ELSE /\ Assign(thread,
                   [frame EXCEPT !.experience_score =
                       ExperienceScore(frame.args.job_description_text,
                                       frame.args.experience_required,
                                       frame.args.resume_processed_text)])
         /\ Goto(thread, "combine")

ThreadMatchesExperience(thread) ==
    /\ pc[thread] = "experience"
    /\ ExperienceDone(thread, frames[FrameOf(thread)])
    /\ UNCHANGED <<users, model, job_requirements_db, resumes_db, calls, screening_results_db>>

\* lines 119-133: the function returns
CombineDone(thread, frame) ==
    Assign(thread, [frame EXCEPT !.ret = Returned(frame.sim.path,
                                                  frame.semantic_similarity,
                                                  frame.skill_match_percentage,
                                                  frame.experience_score,
                                                  frame.matched_required_skills)])

ThreadCombines(thread) ==
    /\ pc[thread] = "combine"
    /\ CombineDone(thread, frames[FrameOf(thread)])
    /\ Goto(thread, "done")
    /\ UNCHANGED <<users, model, job_requirements_db, resumes_db, calls, screening_results_db>>

ThreadsNext ==
    \E thread \in Threads :
        \/ ThreadCalls(thread)
        \/ ThreadEmbeds(thread)
        \/ ThreadTfidf(thread)
        \/ ThreadMatchesSkills(thread)
        \/ ThreadMatchesExperience(thread)
        \/ ThreadCombines(thread)

ThreadsSpec == Init /\ [][ThreadsNext]_vars

(***************************************************************************)
(* screen_resumes handled by two threads of the server at the same time    *)
(* (app.run serves each request in a thread of its own), next to           *)
(* save_job_requirements, upload_resumes and clear_session_data.  A        *)
(* request names one job and one resume.  The handler's locals are in the  *)
(* frame of its thread; the three dbs are module-level.  The call of the   *)
(* scorer is one step: it touches no shared state but the model it reads.  *)
(***************************************************************************)
JobIds == {job_id, "job-2"}

ResumeIds == {resume_id, "resume-2"}

\* The request of a thread: resume_ids = [resume_id] and job_id
RequestsOf(thread) ==
    IF thread = 1 THEN {[resume_id |-> resume_id, job_id |-> job_id]}
    ELSE {[resume_id |-> "resume-2", job_id |-> "job-2"]}

\* The texts of the resumes the concurrent screenings are about
ScreenedTexts == {"2 years experience"}

SaveScreenedJob ==
    /\ \E id \in JobIds : SaveJob(id, {ExampleJob})
    /\ UNCHANGED <<pc, frames, users, model, resumes_db, calls, screening_results_db>>

ScreenedEntries == ResumeEntries(ScreenedTexts)

UploadScreenedResume ==
    /\ \E id \in ResumeIds : UploadResume(id, ScreenedEntries)
    /\ UNCHANGED <<pc, frames, users, model, job_requirements_db, calls, screening_results_db>>

\* The locals of the handler before the loop
HandlerFrame(requested_job_id, requested_resume_id, job_req) ==
    [job_id |-> requested_job_id,
     resume_id |-> requested_resume_id,
     job_req |-> job_req,
     result |-> [job_id |-> None, resume_id |-> None, match_score |-> 0,
                 matched_skills |-> {}, department |-> None]]

\* lines 452-472: the job is looked up; 404 when it is not there
Begun(thread, requested_job_id, requested_resume_id) ==
    IF requested_job_id \in DOMAIN job_requirements_db
    THEN /\ frames' = [frames EXCEPT ![thread] =
                          HandlerFrame(requested_job_id, requested_resume_id,
                                       job_requirements_db[requested_job_id])]
         /\ Goto(thread, "clear")
    ELSE /\ frames' = [frames EXCEPT ![thread] =
                          HandlerFrame(requested_job_id, requested_resume_id, ExampleJob)]
         /\ Goto(thread, "done")

HandlerBegins(thread) ==
    /\ pc[thread] = "idle"
    /\ \E request \in RequestsOf(thread) :
           Begun(thread, request.job_id, request.resume_id)
    /\ UNCHANGED <<users, model, job_requirements_db, resumes_db, calls, screening_results_db>>

\* line 474: screening_results_db.clear()
HandlerClears(thread) ==
    /\ pc[thread] = "clear"
    /\ screening_results_db' = <<>>
    /\ Goto(thread, "loop")
    /\ UNCHANGED <<frames, users, model, job_requirements_db, resumes_db, calls>>

\* lines 476-481: the resume is not in resumes_db, the loop ends
HandlerSkips(thread) ==
    /\ pc[thread] = "loop"
    /\ frames[thread].resume_id \notin DOMAIN resumes_db
    /\ Goto(thread, "done")
    /\ UNCHANGED <<frames, users, model, job_requirements_db, resumes_db, calls, screening_results_db>>

\* lines 483-507: the scorer raises and ends the handler, or the result of
\* the resume is computed
Scored(thread, frame, ret, resume_data) ==
    IF ret.raised
    THEN Goto(thread, "done") /\ UNCHANGED frames
    ELSE /\ frames' = [frames EXCEPT ![thread].result =
                          ScreeningResultOf(frame.job_id, frame.resume_id, ret,
                                            frame.job_req, resume_data)]
         /\ Goto(thread, "store")

HandlerScores(thread, frame, resume_data, sim) ==
    \E ret \in {Score(ScorerArgumentsOf(frame.job_req, resume_data), sim)} :
        Scored(thread, frame, ret, resume_data)

HandlerScoresWithEmbeddings(thread) ==
    /\ pc[thread] = "loop"
    /\ frames[thread].resume_id \in DOMAIN resumes_db
    /\ model = "loaded"
    /\ \E sim \in EmbeddingSimilarities :
           HandlerScores(thread, frames[thread],
                         resumes_db[frames[thread].resume_id], sim)
    /\ UNCHANGED <<users, model, job_requirements_db, resumes_db, calls, screening_results_db>>

HandlerScoresWithTfidf(thread) ==
    /\ pc[thread] = "loop"
    /\ frames[thread].resume_id \in DOMAIN resumes_db
    /\ \E sim \in TfidfSimilarities(
                      frames[thread].job_req.job_description,
                      resumes_db[frames[thread].resume_id].processed_text) :
           HandlerScores(thread, frames[thread],
                         resumes_db[frames[thread].resume_id], sim)
    /\ UNCHANGED <<users, model, job_requirements_db, resumes_db, calls, screening_results_db>>

\* lines 511-521: screening_results_db[resume_id] = {...}
HandlerStores(thread) ==
    /\ pc[thread] = "store"
    /\ screening_results_db' =
           [id \in DOMAIN screening_results_db \cup {frames[thread].resume_id} |->
               IF id = frames[thread].resume_id THEN frames[thread].result
               ELSE screening_results_db[id]]
    /\ Goto(thread, "done")
    /\ UNCHANGED <<frames, users, model, job_requirements_db, resumes_db, calls>>

\* clear_session_data: the three names are bound to new empty dicts
clear_session_data ==
    /\ resumes_db' = <<>>
    /\ screening_results_db' = <<>>
    /\ job_requirements_db' = <<>>
    /\ UNCHANGED <<pc, frames, users, model, calls>>

HandlersNext ==
    \/ SaveScreenedJob
    \/ UploadScreenedResume
    \/ clear_session_data
    \/ \E thread \in Threads :
           \/ HandlerBegins(thread)
           \/ HandlerClears(thread)
           \/ HandlerSkips(thread)
           \/ HandlerScoresWithEmbeddings(thread)
           \/ HandlerScoresWithTfidf(thread)
           \/ HandlerStores(thread)

HandlersSpec == Init /\ [][HandlersNext]_vars

(***************************************************************************)
(* The accounts.  signup, login, verify_otp, forgot_password and           *)
(* reset_password read and update the rows of the table 'users'; the       *)
(* client is connected, its calls return, and a request carries an email  *)
(* and a password.  A row is kept with the columns the handlers decide on: *)
(* password_hash, otp, is_verified.  calls is the list of the requests     *)
(* handled so far, each with the status of its response.                   *)
(***************************************************************************)
MaxRequests == 4

Emails == {"ann@example.com", "bob@example.com"}

\* generate_otp gives six random digits
OtpValues == {"111111", "222222"}

\* data.get('otp'): the field of the request, None when it is omitted
OtpInputs == OtpValues \cup {None}

\* data.get('action', 'signup'): "signup" also when the field is omitted
ActionInputs == {"signup", "reset_password", "delete"}

PasswordInputs == {"pw1", "pw2"}

\* werkzeug's hash of the password (the salt is left out) and its check
generate_password_hash(password) == <<"hash", password>>

check_password_hash(pwhash, password) == pwhash = generate_password_hash(password)

\* The request is answered with the status and recorded
Responded(fn, email, otp, action, status) ==
    /\ Len(calls) < MaxRequests
    /\ calls' = Append(calls, [email |-> email, action |-> action, status |-> status,
                               fn |-> fn, otp |-> otp])
    /\ UNCHANGED <<pc, frames, model, job_requirements_db, resumes_db, screening_results_db>>

\* supabase.table('users').update(update_data).eq('email', email)
UpdateUser(email, update_data) ==
    users' = [users EXCEPT ![email] = update_data @@ users[email]]

\* lines 159-194: a verified user is refused, an unverified one gets a new
\* OTP, a new user is inserted unverified with its OTP
SignedUp(email, password, otp) ==
    IF email \in DOMAIN users
    THEN IF users[email].is_verified
         THEN Responded("signup", email, None, None, 409) /\ UNCHANGED users
         ELSE Responded("signup", email, otp, None, 200) /\ UpdateUser(email, [otp |-> otp])
    ELSE /\ Responded("signup", email, otp, None, 201)
         /\ users' = users @@ (email :> [password_hash |-> generate_password_hash(password),
                                         otp |-> otp,
                                         is_verified |-> FALSE])

signup ==
    \E email \in Emails : \E otp \in OtpValues : SignedUp(email, "pw1", otp)

\* lines 217-228: the password is checked, then is_verified; a successful
\* login clears the OTP
LoggedIn(email, password) ==
    IF \/ email \notin DOMAIN users
       \/ ~check_password_hash(users[email].password_hash, password)
    THEN Responded("login", email, None, None, 401) /\ UNCHANGED users
    ELSE IF ~users[email].is_verified
    THEN Responded("login", email, None, None, 403) /\ UNCHANGED users
    ELSE Responded("login", email, None, None, 200) /\ UpdateUser(email, [otp |-> None])

login ==
    \E email \in Emails : \E password \in PasswordInputs : LoggedIn(email, password)

\* update_data of lines 262-264
VerifiedUpdate(action) ==
    IF action = "signup" THEN [otp |-> None, is_verified |-> TRUE]
    ELSE [otp |-> None]

\* lines 258-288: the OTP of the request is compared with the stored one,
\* the row is updated, and the response depends on the action
OtpVerified(email, otp, action) ==
    IF email \notin DOMAIN users \/ users[email].otp # otp
    THEN Responded("verify_otp", email, otp, action, 401) /\ UNCHANGED users
    ELSE /\ UpdateUser(email, VerifiedUpdate(action))
         /\ Responded("verify_otp", email, otp, action,
                      IF action \in {"signup", "reset_password"} THEN 200 ELSE 400)

verify_otp ==
    \E email \in Emails : \E otp \in OtpInputs : \E action \in ActionInputs :
        OtpVerified(email, otp, action)

\* lines 303-316: an existing user gets a new OTP
PasswordForgotten(email, otp) ==
    IF email \notin DOMAIN users
    THEN Responded("forgot_password", email, None, None, 404) /\ UNCHANGED users
    ELSE Responded("forgot_password", email, otp, None, 200) /\ UpdateUser(email, [otp |-> otp])

forgot_password ==
    \E email \in Emails : \E otp \in OtpValues : PasswordForgotten(email, otp)

\* lines 332-343: an existing user gets the new hash, and the OTP is cleared
PasswordReset(email, new_password) ==
    IF email \notin DOMAIN users
    THEN Responded("reset_password", email, None, None, 404) /\ UNCHANGED users
    ELSE /\ Responded("reset_password", email, None, None, 200)
         /\ UpdateUser(email, [password_hash |-> generate_password_hash(new_password),
                               otp |-> None])

reset_password ==
    \E email \in Emails : PasswordReset(email, "pw2")

AuthNext == signup \/ login \/ verify_otp \/ forgot_password \/ reset_password

AuthSpec == Init /\ [][AuthNext]_vars

(***************************************************************************)
(* Properties.  In a state with calls # <<>> the scorer has been called:   *)
(* calls[1].args are its arguments and calls[1].ret is what it returned    *)
(* (or that it raised); after screen_resumes, screening_results_db holds   *)
(* what the handler stored for that call.                                  *)
(***************************************************************************)
Handled == calls # <<>>

ScoreReturned == Handled /\ ~calls[1].ret.raised

\* The call got past the similarity computation and matched the skills
SkillsMatched == Handled /\ calls[1].ret.error # "fit_transform"

\* The requirement is one of the forms that skip the experience component
RequirementAbsent == calls[1].args.experience_required \in {None, "", "Any"}

\* The required department occurs in the resume text, case-insensitively
DepartmentOccurs ==
    /\ job_requirements_db[job_id].department \notin {None, ""}
    /\ Contains(Lower(calls[1].args.resume_processed_text),
                Lower(job_requirements_db[job_id].department))

\* The weighted sum of the three components of the call, times 100, as the
\* fraction RawNum / RawDen
RawDen ==
    calls[1].ret.semantic_similarity.d * calls[1].ret.skill_match_percentage.d
        * calls[1].ret.experience_score.d

RawNum ==
      35 * calls[1].ret.semantic_similarity.n * calls[1].ret.skill_match_percentage.d
         * calls[1].ret.experience_score.d
    + 45 * calls[1].ret.skill_match_percentage.n * calls[1].ret.semantic_similarity.d
         * calls[1].ret.experience_score.d
    + 20 * calls[1].ret.experience_score.n * calls[1].ret.semantic_similarity.d
         * calls[1].ret.skill_match_percentage.d

\* C1: whenever scoring returns, the returned score lies in [0, 100] and the
\* match_score stored by screen_resumes is an integer in 0..100, with or
\* without the department boost.
C1_ScoreWithinBounds ==
    ScoreReturned =>
        /\ 0 <= calls[1].ret.final_score.n
        /\ calls[1].ret.final_score.n <= 100 * calls[1].ret.final_score.d
        /\ resume_id \in DOMAIN screening_results_db
        /\ screening_results_db[resume_id].match_score \in 0..100

\* C1 witness: the weighted sum exceeds 100, the department boost applies and
\* the stored score is 100.
C1_Witness ==
    /\ ScoreReturned
    /\ RawNum > 100 * RawDen
    /\ DepartmentOccurs
    /\ screening_results_db[resume_id].match_score = 100

\* C2 as claimed: the matched skills are elements of the required-skill list
\* and of the candidate's extracted-skill list as supplied, also in mixed
\* case.
C2_MatchedSubsetAsSupplied ==
    ScoreReturned =>
        calls[1].ret.matched_required_skills \subseteq
            {calls[1].args.required_skills[i] : i \in DOMAIN calls[1].args.required_skills}
                \cap {calls[1].args.resume_extracted_skills[i] :
                         i \in DOMAIN calls[1].args.resume_extracted_skills}

\* C2 amended: every matched skill is the lower-cased form of a required
\* skill and the lower-cased form of an extracted skill.
C2_MatchedSubsetLowercased ==
    ScoreReturned =>
        \A skill \in calls[1].ret.matched_required_skills :
            /\ \E i \in DOMAIN calls[1].args.required_skills : skill = Lower(calls[1].args.required_skills[i])
            /\ \E i \in DOMAIN calls[1].args.resume_extracted_skills :
                   skill = Lower(calls[1].args.resume_extracted_skills[i])

\* C2 witness: skills supplied in mixed case are matched in lower case.
C2_Witness ==
    /\ ScoreReturned
    /\ calls[1].args.required_skills = <<"Python", "SQL">>
    /\ calls[1].args.resume_extracted_skills = <<"PYTHON", "Sql">>
    /\ calls[1].ret.matched_required_skills = {"python", "sql"}

\* The number of distinct lower-cased required skills, and of those among
\* them the candidate has
RequiredCount == Cardinality({Lower(calls[1].args.required_skills[i]) : i \in DOMAIN calls[1].args.required_skills})

MatchedCount ==
    Cardinality({Lower(calls[1].args.required_skills[i]) : i \in DOMAIN calls[1].args.required_skills}
                  \cap {Lower(calls[1].args.resume_extracted_skills[i]) :
                           i \in DOMAIN calls[1].args.resume_extracted_skills})

\* C3: the skill component is |matched| / |R|, 0 for an empty R, times 1.10
\* above 0.7, times 0.80 below 0.3, unchanged from 0.3 to 0.7 inclusive, and
\* not clamped: a full match gives 1.10, 2 of 10 gives 0.16.
C3_SkillComponent ==
    SkillsMatched =>
        /\ RequiredCount = 0 => calls[1].ret.skill_match_percentage.n = 0
        /\ (RequiredCount > 0 /\ 10 * MatchedCount > 7 * RequiredCount) =>
               calls[1].ret.skill_match_percentage.n * 10 * RequiredCount
                   = 11 * MatchedCount * calls[1].ret.skill_match_percentage.d
        /\ (RequiredCount > 0 /\ 10 * MatchedCount < 3 * RequiredCount) =>
               calls[1].ret.skill_match_percentage.n * 10 * RequiredCount
                   = 8 * MatchedCount * calls[1].ret.skill_match_percentage.d
        /\ (/\ RequiredCount > 0
            /\ 3 * RequiredCount <= 10 * MatchedCount
            /\ 10 * MatchedCount <= 7 * RequiredCount) =>
               calls[1].ret.skill_match_percentage.n * RequiredCount
                   = MatchedCount * calls[1].ret.skill_match_percentage.d
        /\ (RequiredCount = 4 /\ MatchedCount = 4) =>
               calls[1].ret.skill_match_percentage = [n |-> 11, d |-> 10]
        /\ (RequiredCount = 10 /\ MatchedCount = 2) =>
               calls[1].ret.skill_match_percentage = [n |-> 4, d |-> 25]

\* C3 witness: 7 of 10 required skills matched, the fraction 0.7 unchanged.
C3_Witness ==
    /\ SkillsMatched
    /\ RequiredCount = 10
    /\ MatchedCount = 7
    /\ calls[1].ret.skill_match_percentage = [n |-> 7, d |-> 10]

\* C4: the returned score is (semantic*0.35 + skill*0.45 + experience*0.20)
\* / 1.00 * 100 clipped to [0, 100], and the score stored when no department
\* boost applies is that value truncated to an integer.
C4_WeightedCombination ==
    ScoreReturned =>
        /\ RawNum > 100 * RawDen => calls[1].ret.final_score = [n |-> 100, d |-> 1]
        /\ RawNum < 0 => calls[1].ret.final_score = [n |-> 0, d |-> 1]
        /\ (0 <= RawNum /\ RawNum <= 100 * RawDen) =>
               calls[1].ret.final_score.n * RawDen = RawNum * calls[1].ret.final_score.d
        /\ (~DepartmentOccurs /\ RawNum > 100 * RawDen) =>
               screening_results_db[resume_id].match_score = 100
        /\ (~DepartmentOccurs /\ 0 <= RawNum /\ RawNum <= 100 * RawDen) =>
               screening_results_db[resume_id].match_score = RawNum \div RawDen

\* C4 witness: an unclamped skill component of 1.10 takes the sum above 100;
\* the score stored without a department boost is 100.
C4_Witness ==
    /\ ScoreReturned
    /\ calls[1].ret.skill_match_percentage = [n |-> 11, d |-> 10]
    /\ RawNum > 100 * RawDen
    /\ ~DepartmentOccurs
    /\ screening_results_db[resume_id].match_score = 100

\* The job's range and the years the resume text names, as the scorer
\* reads them
JobMin == JobExperienceRange(calls[1].args.experience_required).job_min_exp

JobMax == JobExperienceRange(calls[1].args.experience_required).job_max_exp

JobBounded == JobExperienceRange(calls[1].args.experience_required).bounded

YearsFound == resume_experience_match(calls[1].args.resume_processed_text).found

ResumeMin == ResumeMinYears(resume_experience_match(calls[1].args.resume_processed_text))

ResumeMax == ResumeMaxYears(resume_experience_match(calls[1].args.resume_processed_text))

\* The requirement is present, its range parsed, and the text names years
YearsCompared == ScoreReturned /\ ~RequirementAbsent /\ YearsFound

RangesOverlap == JobMin <= ResumeMax /\ (~JobBounded \/ JobMax >= ResumeMin)

\* C5: with a requirement and a years phrase, the experience component is
\* 1.0 when the ranges overlap, else 0.7 when resume_min > job_max, else 0.3
\* when resume_max < job_min, in that order, for every parsed job range
\* (N-M with N > M too); "3-5" with 4 years gives 1.0, "5+" with 2 years 0.3.
C5_YearsRules ==
    /\ YearsCompared =>
        /\ RangesOverlap => calls[1].ret.experience_score = [n |-> 1, d |-> 1]
        /\ (~RangesOverlap /\ JobBounded /\ ResumeMin > JobMax) =>
               calls[1].ret.experience_score = [n |-> 7, d |-> 10]
        /\ (/\ ~RangesOverlap
            /\ ~(JobBounded /\ ResumeMin > JobMax)
            /\ ResumeMax < JobMin) =>
               calls[1].ret.experience_score = [n |-> 3, d |-> 10]
    /\ (/\ Handled
        /\ calls[1].args.experience_required = "3-5"
        /\ calls[1].args.resume_processed_text = "4 years experience in Engineering") =>
           calls[1].ret.experience_score = [n |-> 1, d |-> 1]
    /\ (/\ Handled
        /\ calls[1].args.experience_required = "5+"
        /\ calls[1].args.resume_processed_text = "2 years experience") =>
           calls[1].ret.experience_score = [n |-> 3, d |-> 10]

\* C5 witness: the job range "5-3" (N > M) and 4 years: no overlap, both
\* resume_min > job_max and resume_max < job_min, and the component is 0.7.
C5_Witness ==
    /\ YearsCompared
    /\ calls[1].args.experience_required = "5-3"
    /\ ResumeMin = 4
    /\ ResumeMax = 4
    /\ calls[1].ret.experience_score = [n |-> 7, d |-> 10]

\* C6 as claimed: "N-M" is the range N..M, "N+" is N and up, and "N-M+" is
\* open-ended, N and up, so that a resume with more than M years overlaps it
\* and gets the component 1.0.
C6_RangeForms ==
    YearsCompared =>
        /\ calls[1].args.experience_required = "3-5" =>
               (calls[1].ret.experience_score = [n |-> 1, d |-> 1]
                   <=> (ResumeMax >= 3 /\ ResumeMin <= 5))
        /\ calls[1].args.experience_required = "5+" =>
               (calls[1].ret.experience_score = [n |-> 1, d |-> 1] <=> ResumeMax >= 5)
        /\ calls[1].args.experience_required \in {"3-5+", "1-3+"} =>
               (ResumeMax >= 3 => calls[1].ret.experience_score = [n |-> 1, d |-> 1])

\* C7 as claimed: a requirement whose range parts are not numeric is treated
\* like "Any": the call does not raise, the experience component is skipped
\* and a score in 0..100 is stored.
C7_MalformedTreatedAsAny ==
    (/\ SkillsMatched
     /\ calls[1].args.experience_required \in {"three-five", "3-", "senior+"}) =>
        /\ ~calls[1].ret.raised
        /\ calls[1].ret.experience_score = [n |-> 0, d |-> 1]
        /\ resume_id \in DOMAIN screening_results_db
        /\ screening_results_db[resume_id].match_score \in 0..100

\* C8: with the requirement "Any", empty or absent the requirement is not
\* parsed, the experience component is 0 whatever the texts hold, and the
\* score is the semantic and skill parts over the full weight
\* 0.35 + 0.45 + 0.20.
C8_AbsentRequirementScoresZero ==
    (SkillsMatched /\ RequirementAbsent) =>
        /\ ~calls[1].ret.raised
        /\ calls[1].ret.experience_score = [n |-> 0, d |-> 1]
        /\ calls[1].ret.final_score.n * calls[1].ret.semantic_similarity.d
               * calls[1].ret.skill_match_percentage.d
             = ( 35 * calls[1].ret.semantic_similarity.n * calls[1].ret.skill_match_percentage.d
               + 45 * calls[1].ret.skill_match_percentage.n * calls[1].ret.semantic_similarity.d )
               * calls[1].ret.final_score.d

\* C8 witness: requirement "Any", a text naming years and the keyword
\* "senior" shared with the job description, and the component is 0.
C8_Witness ==
    /\ ScoreReturned
    /\ calls[1].args.experience_required = "Any"
    /\ calls[1].args.job_description_text = "Senior lead manager"
    /\ calls[1].args.resume_processed_text = "7 yrs of experience senior"
    /\ calls[1].ret.experience_score = [n |-> 0, d |-> 1]

\* The seniority keywords in their order, with their values in hundredths
SeniorityKeywords == <<"senior", "junior", "entry-level", "lead", "manager">>

SeniorityValues == <<90, 90, 90, 85, 80>>

\* The keywords that occur in the job description and in the resume text
SharedKeywords ==
    {i \in 1..5 : /\ Contains(Lower(calls[1].args.job_description_text), SeniorityKeywords[i])
                  /\ Contains(Lower(calls[1].args.resume_processed_text), SeniorityKeywords[i])}

\* C9: with a requirement and no years phrase, the experience component is
\* the value of the first keyword, in the order senior, junior, entry-level,
\* lead, manager, that occurs in both texts, and 0.5 when none does.
C9_KeywordFallback ==
    (ScoreReturned /\ ~RequirementAbsent /\ ~YearsFound) =>
        /\ SharedKeywords = {} => calls[1].ret.experience_score = [n |-> 1, d |-> 2]
        /\ SharedKeywords # {} =>
               calls[1].ret.experience_score.n * 100
                   = SeniorityValues[Min(SharedKeywords)] * calls[1].ret.experience_score.d

\* C9 witness: "senior" is in the job description only, "lead" and
\* "manager" are in both texts, and the component is 0.85.
C9_Witness ==
    /\ ScoreReturned
    /\ ~RequirementAbsent
    /\ calls[1].args.job_description_text = "Senior lead manager"
    /\ calls[1].args.resume_processed_text = "team lead manager"
    /\ calls[1].ret.experience_score = [n |-> 17, d |-> 20]

\* The score the scorer returned, truncated to an integer
TruncatedScore == calls[1].ret.final_score.n \div calls[1].ret.final_score.d

TokensShared ==
    TfidfTokens(calls[1].args.job_description_text)
        \cap TfidfTokens(calls[1].args.resume_processed_text) # {}

\* C11 as claimed: on the TF-IDF path the semantic component is the cosine
\* itself, not remapped: 0 for two texts without a common term, and a
\* positive cosine k / SimSteps otherwise.
C11_TfidfCosineNotRemapped ==
    (ScoreReturned /\ calls[1].ret.path = "tfidf") =>
        /\ ~TokensShared => calls[1].ret.semantic_similarity = [n |-> 0, d |-> 1]
        /\ TokensShared =>
               \E k \in 1..SimSteps :
                   calls[1].ret.semantic_similarity.n * SimSteps
                       = k * calls[1].ret.semantic_similarity.d

\* C12 as claimed, for requirements that are absent or parse: the call of
\* the scorer never raises, on the embedding path and on the TF-IDF path,
\* also with an empty skill list, job description or resume text.
C12_ScoringNeverRaises ==
    (Handled /\ ~ExperienceRaises(calls[1].args.experience_required)) =>
        ~calls[1].ret.raised

\* The text function of the call, if one was called
TextFunction == IF calls = <<>> THEN None ELSE calls[1].fn

\* The word w stands in t on its own: no word character before or after it
WholeWordIn(w, t) ==
    \E p \in 1..Len(t) :
        LitAt(t, p, w) /\ ~IsWordAt(t, p - 1) /\ ~IsWordAt(t, p + Len(w))

\* Category i has a keyword that stands in t as a whole word
CategoryHasWholeWord(i, t) ==
    \E k \in DOMAIN categories[i].keywords_list :
        WholeWordIn(categories[i].keywords_list[k], t)

\* The first category, in the order of the dict, with a whole-word keyword
FirstCategoryOf(t) ==
    {i \in DOMAIN categories :
        /\ CategoryHasWholeWord(i, t)
        /\ \A j \in 1..(i - 1) : ~CategoryHasWholeWord(j, t)}

\* C13 as claimed: the categories are in the order Tech, Marketing, Design,
\* Finance, HR, Sales, Engineering, Social Media, Operations, Healthcare,
\* Education, Customer Service, Legal, Project Management, and
\* categorize_resume returns the first of them one of whose keywords is in
\* the text as a whole word; with "python" and "seo" it returns "Tech".
C13_FirstCategoryInOrder ==
    TextFunction = "categorize_resume" =>
        /\ [i \in DOMAIN categories |-> categories[i].category]
               = <<"Tech", "Marketing", "Design", "Finance", "HR", "Sales",
                   "Engineering", "Social Media", "Operations", "Healthcare",
                   "Education", "Customer Service", "Legal", "Project Management">>
        /\ \A i \in FirstCategoryOf(Lower(calls[1].args.text)) :
               calls[1].ret = categories[i].category
        /\ (/\ WholeWordIn("python", Lower(calls[1].args.text))
            /\ WholeWordIn("seo", Lower(calls[1].args.text)))
               => calls[1].ret = "Tech"

\* One of the five general role nouns appears somewhere in t
GeneralTermIn(t) ==
    \E term \in {"analyst", "consultant", "specialist", "manager", "coordinator"} :
        Contains(t, term)

FoundSet == {calls[1].found_skills[i] : i \in DOMAIN calls[1].found_skills}

\* The dictionary skill stands in t as a whole word, each of its dots
\* written as a dot, as white space or not at all
SkillWholeWordIn(skill, t) == \E v \in SkillPatternTexts(skill) : WholeWordIn(v, t)

\* C15 as claimed: extract_skills_from_text reports a dictionary skill only
\* where it stands in the text as a whole word, its dots being optional
\* separators; "shred the document" does not yield "hr"; "experienced in
\* node.js", "experienced in node js" and "experienced in nodejs" each yield
\* the node.js skill; no skill is in the result twice.
C15_WholeWordSkills ==
    TextFunction = "extract_skills_from_text" =>
        /\ \A found \in FoundSet :
               \E k \in DOMAIN common_skills :
                   /\ Remove(common_skills[k], ".") = found
                   /\ SkillWholeWordIn(common_skills[k], Lower(calls[1].args.text))
        /\ calls[1].args.text = "shred the document" => "hr" \notin FoundSet
        /\ calls[1].args.text \in {"experienced in node.js", "experienced in node js",
                                   "experienced in nodejs"}
               => "nodejs" \in FoundSet
        /\ Cardinality(FoundSet) = Len(calls[1].found_skills)

\* The candidate skills of the call, lower-cased
CandidateSkills == LowerAll(calls[1].args.resume_extracted_skills)

\* C20: in a screening, where the candidate skills come from
\* extract_skills_from_text, a required skill is matched only if its
\* lower-cased string equals a candidate skill, and a required skill
\* written with a dot is never among the matched skills, also when the
\* text of the resume contains it as written.
C20_DottedSkillNeverMatched ==
    SkillsMatched =>
        \A matched \in calls[1].ret.matched_required_skills :
            /\ Lower(matched) \in CandidateSkills
            /\ ~Contains(matched, ".")

\* A job requiring "node.js" and a resume whose text contains "node.js":
\* the extractor found the skill, as "nodejs", and it is not matched
C20_Witness ==
    /\ SkillsMatched
    /\ calls[1].args.required_skills = <<"node.js", "python">>
    /\ Contains(calls[1].args.resume_processed_text, "node.js")
    /\ "nodejs" \in CandidateSkills
    /\ calls[1].ret.matched_required_skills = {}

\* C16: in the end-to-end example (job description "Senior Python backend
\* engineer", skills python and sql, experience "3-5", department
\* "Engineering"; the candidate text normalized by preprocess_text, its
\* skills extracted, scored and boosted), with a semantic component of at
\* least 1/2 the skill component is 1.10, the experience component is 1,
\* the department boost of 1.05 is applied and the stored score is at
\* least 90.
C16_EndToEndExample ==
    (/\ ScoreReturned
     /\ resumes_db[resume_id].raw_text = ExampleText
     /\ job_requirements_db[job_id] = ExampleJob
     /\ 2 * calls[1].ret.semantic_similarity.n >= calls[1].ret.semantic_similarity.d) =>
        /\ calls[1].args.resume_processed_text
               = "5 year experience python sql backend developer worked engineering department"
        /\ {"python", "sql"} \subseteq LowerAll(calls[1].args.resume_extracted_skills)
        /\ calls[1].ret.skill_match_percentage = [n |-> 11, d |-> 10]
        /\ calls[1].ret.experience_score = [n |-> 1, d |-> 1]
        /\ screening_results_db[resume_id].match_score
               = Min100((calls[1].ret.final_score.n * 105)
                            \div (calls[1].ret.final_score.d * 100))
        /\ screening_results_db[resume_id].match_score >= 90

\* The example screened with embeddings of cosine 0, a semantic component
\* of 1/2: the score 87 of the scorer is stored as 91
C16_Witness ==
    /\ ScoreReturned
    /\ resumes_db[resume_id].raw_text = ExampleText
    /\ job_requirements_db[job_id] = ExampleJob
    /\ calls[1].ret.path = "embedding"
    /\ calls[1].ret.semantic_similarity = [n |-> 1, d |-> 2]
    /\ calls[1].ret.final_score = [n |-> 87, d |-> 1]
    /\ screening_results_db[resume_id].match_score = 91

\* The thread has left its call of the scorer
CallEnded(thread) == pc[thread] = "done"

\* The call of the thread ended as the same call ends when it runs alone
EndedAsAlone(thread) ==
    /\ frames[thread] # <<>>
    /\ frames[thread].args \in ThreadArguments(thread)
    /\ frames[thread].ret = Score(frames[thread].args, frames[thread].sim)

\* C18: however the calls of the two threads interleave, a call that has
\* ended returned (or raised) what the same call gives when it runs alone,
\* the score and the matched skills included, and no step of a call changes
\* module-level state: the model and the in-memory dbs stay as they are.
C18_NoSharedMutableState ==
    /\ [](\A thread \in Threads : CallEnded(thread) => EndedAsAlone(thread))
    /\ [][UNCHANGED <<model, job_requirements_db, resumes_db, calls, screening_results_db>>]_vars

\* The call of thread 1 has returned its score while the call of thread 2,
\* on another pair, is in flight with its components computed
C18_Witness ==
    /\ CallEnded(1)
    /\ ~frames[1].ret.raised
    /\ frames[1].ret.matched_required_skills = {"python"}
    /\ pc[2] = "combine"
    /\ frames[2].matched_required_skills = {"react"}

\* The handler of the thread has ended and stored this entry
ProducedBy(thread, id) ==
    /\ pc[thread] = "done"
    /\ frames[thread].result = screening_results_db[id]

\* C19 as claimed: whatever screen_resumes requests were handled, one after
\* the other or at the same time, the entries of screening_results_db all
\* carry one job_id and were all stored by one screening call.
C19_OnlyLastScreening ==
    /\ \A id \in DOMAIN screening_results_db :
           \A other \in DOMAIN screening_results_db :
               screening_results_db[id].job_id = screening_results_db[other].job_id
    /\ \E thread \in Threads :
           \A id \in DOMAIN screening_results_db : ProducedBy(thread, id)

\* C21: whenever the text names years and the years comparison of lines
\* 91-98 runs, one of the three tests (the ranges overlap, resume_min >
\* job_max, resume_max < job_min) is true, for every job range and resume
\* range, reversed ones too, and the experience component is 1.0, 0.7 or
\* 0.3; with a requirement, the component 0.5 comes only from the keyword
\* fallback, never from the years comparison.
C21_YearsTestsExhaustive ==
    /\ YearsCompared =>
        /\ RangesOverlap \/ (JobBounded /\ ResumeMin > JobMax) \/ ResumeMax < JobMin
        /\ calls[1].ret.experience_score
               \in {[n |-> 1, d |-> 1], [n |-> 7, d |-> 10], [n |-> 3, d |-> 10]}
    /\ (/\ ScoreReturned
        /\ ~RequirementAbsent
        /\ calls[1].ret.experience_score = [n |-> 1, d |-> 2]) => ~YearsFound

\* C21 witness: the text names the reversed range 9-6 and the job asks for
\* 0-2: the ranges do not overlap, and the component is 0.7.
C21_Witness ==
    /\ YearsCompared
    /\ ResumeMin = 9
    /\ ResumeMax = 6
    /\ calls[1].args.experience_required = "0-2"
    /\ ~RangesOverlap
    /\ calls[1].ret.experience_score = [n |-> 7, d |-> 10]

\* Request i was a verify_otp for email e that passed the comparison with
\* the status 200
VerifySucceeded(i, e) ==
    /\ calls[i].fn = "verify_otp"
    /\ calls[i].email = e
    /\ calls[i].status = 200

\* Among the requests handled so far, a verify_otp for e with the action
\* reset_password succeeded, and no forgot_password for e came after it
VerifiedForReset(e) ==
    \E i \in DOMAIN calls :
        /\ VerifySucceeded(i, e)
        /\ calls[i].action = "reset_password"
        /\ \A k \in (i + 1)..Len(calls) :
               ~(calls[k].fn = "forgot_password" /\ calls[k].email = e)

\* C22 as claimed: in every sequence of signup, forgot_password, verify_otp,
\* login and reset_password requests, the password_hash of a user changes
\* only if, before the request, a verify_otp for the same email with the
\* action reset_password succeeded after the most recent forgot_password
\* for that email.
C22_ResetOnlyAfterVerifiedOtp ==
    [][\A e \in DOMAIN users :
          users'[e].password_hash # users[e].password_hash => VerifiedForReset(e)]_vars

\* Request j issued an OTP to e: signup or forgot_password stored and sent it
Issues(j, e) ==
    /\ calls[j].email = e
    /\ calls[j].fn \in {"signup", "forgot_password"}
    /\ calls[j].status \in {200, 201}

\* Request j cleared the stored OTP of e: a successful verify_otp, login or
\* reset_password
Clears(j, e) ==
    /\ calls[j].email = e
    /\ calls[j].fn \in {"verify_otp", "login", "reset_password"}
    /\ calls[j].status = 200

\* The OTPs that, before request i, were issued to e last and not cleared
\* since: one value, or none
LiveOtp(i, e) ==
    {calls[j].otp : j \in {j \in 1..(i - 1) :
        /\ Issues(j, e)
        /\ \A k \in (j + 1)..(i - 1) : ~Issues(k, e) /\ ~Clears(k, e)}}

\* C23 as claimed: verify_otp succeeds only when the request carries the OTP
\* most recently issued to that email and not yet consumed, and a success
\* with the action signup leaves is_verified True; once the stored OTP was
\* cleared by a successful verify_otp, login or reset_password, a
\* verify_otp request, also one that omits the otp field, is answered 401
\* "Invalid OTP" until a new OTP is issued.
C23_VerifyNeedsLiveOtp ==
    \A i \in DOMAIN calls :
        calls[i].fn = "verify_otp" =>
            /\ calls[i].status = 200 => calls[i].otp \in LiveOtp(i, calls[i].email)
            /\ (calls[i].status = 200 /\ calls[i].action = "signup") =>
                   users[calls[i].email].is_verified
            /\ LiveOtp(i, calls[i].email) = {} => calls[i].status = 401

====
